---- MODULE Spec2Model ----
(***************************************************************************)
(* Scan stream parser and bulk-scan ledger of the POS ProductScanner       *)
(* component (src/src/components/pos/ProductScanner.tsx).                  *)
(*                                                                         *)
(* Text is modelled as a sequence of one-character strings, so that        *)
(* endsWith / lastIndexOf / substring / match are computed, not assumed.   *)
(* A key event carries e.key (a one-character text for a printable key,    *)
(* the key's name for a named key) and e.ctrlKey.                          *)
(*                                                                         *)
(* A setState call is rendered before the next event is handled. The       *)
(* scanner effect of a render (which removes the window listeners and      *)
(* registers new ones that close over bulkMode and bulkItemsMap) runs at   *)
(* the latest when the next render begins; whether it runs before the next *)
(* event depends on the React root, so it is a step of its own (RunEffect).*)
(*                                                                         *)
(* Further parts: the contact search of the same component (SpecContact),  *)
(* the ProductForm of src/unnamed/part_000 with its two effects            *)
(* (SpecForm, SpecSessions), its symbol encoders (SpecSymbols), the markup *)
(* lookup of src/src/utils/markupSettings.ts (SpecMarkup) and the add and  *)
(* edit handlers of the product list (SpecStore). utils/barcodeGenerator   *)
(* is not among the sources; GenerateBarcodes follows its specification.   *)
(* Scans typed into the focused field (SpecFocus), processBuffer on its    *)
(* own (SpecParser), the row of a product in the list (SpecRow) and the    *)
(* prices the form fills in (SpecPrices) have specifications of their own. *)
(***************************************************************************)
EXTENDS Integers, Sequences, FiniteSets, TLC

\* ------------------------------------------------------------------ bounds
\* Date.now() at mount (any value far above SCAN_TIMEOUT)
StartTime == 100
\* the clock stops advancing after this many milliseconds past StartTime
MaxElapsed == 31
\* the same in SpecBurst: a first gap and SCAN_TIMEOUT before every other key
MaxBurstElapsed == 661
\* printable keys typed by hand are accepted while the buffer is shorter
MaxJunk == 2
\* keys are pressed by hand while the scanner is at most this far into a token
MaxHandAt == 2
\* largest ledger (entries, total quantity) in SpecLedger and SpecBurst
MaxLedger == 2
\* onBulkScan calls awaited at the same time in SpecComplete
MaxInFlight == 2
\* the quick multipliers offered, counted from the first
MaxMultipliers == 1
\* the longest text handed to the symbol encoders
MaxSymbolLen == 2
\* customer requests in flight at the same time
MaxLookups == 2
\* debounce timers pending at the same time
MaxTimers == 2
\* the pieces of a buffer handed to processBuffer
MaxPieces == 3
\* the segments of a SKU
MaxSegments == 4
\* the largest price a form is filled in from
MaxPrice == 3

\* ------------------------------------------------------- program constants
SCAN_TIMEOUT == 30
SKU_PATTERN == <<"R", "I", "M", "O", "1", "2", "0", "0", "5", "9", "7">>
BUFFER_LIMIT == 1000
BUFFER_KEEP == 200

KeyEscape == <<"E", "s", "c", "a", "p", "e">>
KeyEnter == <<"E", "n", "t", "e", "r">>
KeyShift == <<"S", "h", "i", "f", "t">>
KeyControl == <<"C", "o", "n", "t", "r", "o", "l">>
KeyAlt == <<"A", "l", "t">>
KeyTab == <<"T", "a", "b">>
KeyX == <<"x">>
KeyD == <<"d">>

\* ------------------------------------------------------------ text helpers
\* String.prototype.substring(start) with a 0-based start
Substring(s, start) == SubSeq(s, start + 1, Len(s))

\* String.prototype.endsWith
EndsWith(s, p) == Len(s) >= Len(p) /\ SubSeq(s, Len(s) - Len(p) + 1, Len(s)) = p

\* the 0-based positions at which p occurs in s
Occurrences(s, p) == {i \in 0..(Len(s) - Len(p)) : SubSeq(s, i + 1, i + Len(p)) = p}

\* String.prototype.lastIndexOf (0-based, -1 when absent)
LastIndexOf(s, p) ==
  IF Occurrences(s, p) = {} THEN -1
  ELSE CHOOSE i \in Occurrences(s, p) : \A j \in Occurrences(s, p) : j <= i

\* String.prototype.match with a global regex of a literal pattern: the
\* non-overlapping occurrences from left to right (<<>> stands for null)
RECURSIVE MatchAll(_, _)
MatchAll(s, p) ==
  IF Occurrences(s, p) = {} THEN <<>>
  ELSE LET i == CHOOSE k \in Occurrences(s, p) : \A j \in Occurrences(s, p) : k <= j
       IN <<p>> \o MatchAll(Substring(s, i + Len(p)), p)

\* ------------------------------------------------------------- bulk ledger
\* a ledger entry {sku, quantity}
Item(sku, q) == [sku |-> sku, quantity |-> q]

\* Array.prototype.findIndex(item => item.sku === sku), 1-based, 0 when absent
FindIndex(items, sku) ==
  IF \E i \in 1..Len(items) : items[i].sku = sku
  THEN CHOOSE i \in 1..Len(items) :
         items[i].sku = sku /\ \A j \in 1..(i - 1) : items[j].sku # sku
  ELSE 0

\* the functional updaters and values handed to setBulkItems
UpdIncrement(sku) == [op |-> "increment", sku |-> sku, index |-> 0]
UpdAppend(sku) == [op |-> "append", sku |-> sku, index |-> 0]
UpdMapIncrement(sku) == [op |-> "mapIncrement", sku |-> sku, index |-> 0]
UpdClear == [op |-> "clear", sku |-> <<>>, index |-> 0]
UpdRemoveAt(i) == [op |-> "removeAt", sku |-> <<>>, index |-> i]

\* Array.prototype.filter((_, i) => i !== index) with a 1-based index
RemoveAt(items, i) ==
  IF i \in 1..Len(items)
  THEN SubSeq(items, 1, i - 1) \o SubSeq(items, i + 1, Len(items))
  ELSE items

\* one setBulkItems updater applied to the previous state
ApplyUpdate(prev, u) ==
  IF u.op = "increment" THEN
    LET index == FindIndex(prev, u.sku)
    IN IF index # 0
       THEN [prev EXCEPT ![index] = Item(prev[index].sku, prev[index].quantity + 1)]
       ELSE prev
  ELSE IF u.op = "append" THEN Append(prev, Item(u.sku, 1))
  ELSE IF u.op = "mapIncrement" THEN
    [i \in 1..Len(prev) |->
       IF prev[i].sku = u.sku THEN Item(prev[i].sku, prev[i].quantity + 1) ELSE prev[i]]
  ELSE IF u.op = "clear" THEN <<>>
  ELSE RemoveAt(prev, u.index)

\* React applies the updaters passed to setBulkItems in order
RECURSIVE ApplyAll(_, _)
ApplyAll(prev, queue) ==
  IF queue = <<>> THEN prev
  ELSE ApplyAll(ApplyUpdate(prev, Head(queue)), Tail(queue))

\* the keys of bulkItemsMap built from the rendered bulkItems
MapKeys(items) == {items[i].sku : i \in 1..Len(items)}

\* ---------------------------------------------------------------- dispatch
NoDispatch == [tokens |-> <<>>, updates |-> <<>>, lookups |-> <<>>]

\* processScannedSku of utils/scannerUtils: the token goes to the single-item
\* lookup and the visible field is cleared
ProcessScannedSku(sku) == [lookups |-> <<sku>>, field |-> <<>>]

ProcessSku(sku, bulk, map) ==
  IF sku = <<>> THEN NoDispatch
  ELSE IF bulk THEN
    [tokens |-> <<sku>>,
     updates |-> IF sku \in map THEN <<UpdIncrement(sku)>> ELSE <<UpdAppend(sku)>>,
     lookups |-> <<>>]
  ELSE [tokens |-> <<sku>>, updates |-> <<>>, lookups |-> ProcessScannedSku(sku).lookups]

\* processSku called for each element of skus, in order
RECURSIVE ProcessEach(_, _, _)
ProcessEach(skus, bulk, map) ==
  IF skus = <<>> THEN NoDispatch
  ELSE LET h == ProcessSku(Head(skus), bulk, map)
           t == ProcessEach(Tail(skus), bulk, map)
       IN [tokens |-> h.tokens \o t.tokens,
           updates |-> h.updates \o t.updates,
           lookups |-> h.lookups \o t.lookups]

\* (mutation: only the first match is processed)
ProcessBufferFirst(buf, bulk, map) ==
  IF buf = <<>> THEN [buffer |-> buf, d |-> NoDispatch]
  ELSE LET matches == MatchAll(buf, SKU_PATTERN)
       IN [buffer |-> <<>>,
           d |-> IF Len(matches) > 0
                 THEN ProcessSku(Head(matches), bulk, map)
                 ELSE ProcessSku(buf, bulk, map)]

\* (mutation: the buffer is not cleared after processing)
ProcessBufferKeep(buf, bulk, map) ==
  IF buf = <<>> THEN [buffer |-> buf, d |-> NoDispatch]
  ELSE LET matches == MatchAll(buf, SKU_PATTERN)
       IN [buffer |-> buf,
           d |-> IF Len(matches) > 0
                 THEN ProcessEach(matches, bulk, map)
                 ELSE ProcessSku(buf, bulk, map)]

\* processBuffer
ProcessBuffer(buf, bulk, map) ==
  IF buf = <<>> THEN [buffer |-> buf, d |-> NoDispatch]
  ELSE LET matches == MatchAll(buf, SKU_PATTERN)
       IN [buffer |-> <<>>,
           d |-> IF Len(matches) > 0
                 THEN ProcessEach(matches, bulk, map)
                 ELSE ProcessSku(buf, bulk, map)]

\* ------------------------------------------------------------ key handling
IsModifier(key) == key \in {KeyShift, KeyControl, KeyAlt}

KeyEvent(key, ctrl) == [key |-> key, ctrlKey |-> ctrl]

\* the inactivity check of handleKeyDown: the buffer to continue with
\* (mutation: the threshold taken in seconds)
ResetOnTimeoutSeconds(e, t, buf, last) ==
  IF t - last > SCAN_TIMEOUT * 1000 /\ e.key # KeyShift THEN <<>> ELSE buf

\* (mutation: a gap equal to the threshold resets too)
ResetOnTimeoutInclusive(e, t, buf, last) ==
  IF t - last >= SCAN_TIMEOUT /\ e.key # KeyShift THEN <<>> ELSE buf

ResetOnTimeout(e, t, buf, last) ==
  IF t - last > SCAN_TIMEOUT /\ e.key # KeyShift THEN <<>> ELSE buf

\* the last-key timestamp after the event
UpdateLastKeyTime(e, t, last) == IF ~IsModifier(e.key) THEN t ELSE last

\* (mutation: the first BUFFER_KEEP characters are kept)
AppendCappedHead(buf, key) ==
  LET b2 == buf \o key
  IN IF Len(b2) > BUFFER_LIMIT THEN SubSeq(b2, 1, BUFFER_KEEP) ELSE b2

\* buffer.current += e.key, then the length cap
AppendCapped(buf, key) ==
  LET b2 == buf \o key
  IN IF Len(b2) > BUFFER_LIMIT THEN Substring(b2, Len(b2) - BUFFER_KEEP) ELSE b2

\* what is kept of a buffer that ends with the pattern
AfterLastPattern(buf) ==
  Substring(buf, LastIndexOf(buf, SKU_PATTERN) + Len(SKU_PATTERN))

\* (mutation: bulk mode skips the inactivity check)
HandleKeyDownBulkPath(e, t, buf, last, shift, bulk, map) ==
  LET same == [exit |-> "none", buffer |-> buf, lastKeyTime |-> last,
               shift |-> shift, d |-> NoDispatch]
  IN
  IF e.key = KeyEscape THEN [same EXCEPT !.exit = "escape"]
  ELSE IF e.ctrlKey /\ e.key = KeyD THEN [same EXCEPT !.exit = "debug"]
  ELSE IF e.key = KeyShift THEN [same EXCEPT !.shift = TRUE]
  ELSE
    LET b1 == IF bulk THEN buf ELSE ResetOnTimeout(e, t, buf, last)
        l1 == UpdateLastKeyTime(e, t, last)
    IN
    IF e.key = KeyEnter THEN
      LET pb == ProcessBuffer(b1, bulk, map)
      IN [same EXCEPT !.buffer = pb.buffer, !.lastKeyTime = l1, !.d = pb.d]
    ELSE IF ~IsModifier(e.key) THEN
      LET b3 == AppendCapped(b1, e.key)
      IN IF EndsWith(b3, SKU_PATTERN)
         THEN [same EXCEPT !.buffer = AfterLastPattern(b3), !.lastKeyTime = l1,
                           !.d = ProcessSku(SKU_PATTERN, bulk, map)]
         ELSE [same EXCEPT !.buffer = b3, !.lastKeyTime = l1]
    ELSE [same EXCEPT !.buffer = b1, !.lastKeyTime = l1]

\* handleKeyDown for event e at Date.now() = t; "exit" is "escape" when
\* onScanningChange(false) was called, "debug" when debug mode was toggled
HandleKeyDown(e, t, buf, last, shift, bulk, map) ==
  LET same == [exit |-> "none", buffer |-> buf, lastKeyTime |-> last,
               shift |-> shift, d |-> NoDispatch]
  IN
  IF e.key = KeyEscape THEN [same EXCEPT !.exit = "escape"]
  ELSE IF e.ctrlKey /\ e.key = KeyD THEN [same EXCEPT !.exit = "debug"]
  ELSE IF e.key = KeyShift THEN [same EXCEPT !.shift = TRUE]
  ELSE
    LET b1 == ResetOnTimeout(e, t, buf, last)
        l1 == UpdateLastKeyTime(e, t, last)
    IN
    IF e.key = KeyEnter THEN
      LET pb == ProcessBuffer(b1, bulk, map)
      IN [same EXCEPT !.buffer = pb.buffer, !.lastKeyTime = l1, !.d = pb.d]
    ELSE IF ~IsModifier(e.key) THEN
      LET b3 == AppendCapped(b1, e.key)
      IN IF EndsWith(b3, SKU_PATTERN)
         THEN [same EXCEPT !.buffer = AfterLastPattern(b3), !.lastKeyTime = l1,
                           !.d = ProcessSku(SKU_PATTERN, bulk, map)]
         ELSE [same EXCEPT !.buffer = b3, !.lastKeyTime = l1]
    ELSE [same EXCEPT !.buffer = b1, !.lastKeyTime = l1]

\* handleKeyUp
HandleKeyUp(e, shift) == IF e.key = KeyShift THEN FALSE ELSE shift

\* handleManualSubmit(inputSku) against the rendered bulkItems
HandleManualSubmit(inputSku, bulk, items) ==
  IF inputSku = <<>> THEN [d |-> NoDispatch, clearField |-> FALSE]
  ELSE IF bulk THEN
    [d |-> [tokens |-> <<inputSku>>,
            updates |-> IF FindIndex(items, inputSku) # 0
                        THEN <<UpdMapIncrement(inputSku)>>
                        ELSE <<UpdAppend(inputSku)>>,
            lookups |-> <<>>],
     clearField |-> TRUE]
  ELSE
    [d |-> [tokens |-> <<inputSku>>, updates |-> <<>>,
            lookups |-> ProcessScannedSku(inputSku).lookups],
     clearField |-> ProcessScannedSku(inputSku).field = <<>>]

\* ------------------------------------------------------------ product form
\* (ProductForm of src/unnamed/part_000 and src/src/utils/markupSettings.ts)
\* A price field holds a text of digits; a markup is held in percent and a
\* quick multiplier in tenths, so that Math.round(x * (1 + markup)) is
\* Round(x * (100 + markup), 100).
Digits == <<"0", "1", "2", "3", "4", "5", "6", "7", "8", "9">>
IsDigit(c) == \E d \in 1..Len(Digits) : Digits[d] = c
DigitValue(c) == (CHOOSE d \in 1..Len(Digits) : Digits[d] = c) - 1

\* value.replace(/[^\d]/g, '')
StripNonDigits(text) == SelectSeq(text, IsDigit)

\* Number(text) for a text of digits; Number('') is 0
RECURSIVE ToNumber(_)
ToNumber(text) ==
  IF text = <<>> THEN 0
  ELSE 10 * ToNumber(SubSeq(text, 1, Len(text) - 1)) + DigitValue(text[Len(text)])

\* Number.prototype.toString for a non-negative integer
RECURSIVE NumberToString(_)
NumberToString(n) ==
  IF n < 10 THEN <<Digits[n + 1]>>
  ELSE NumberToString(n \div 10) \o <<Digits[(n % 10) + 1]>>

\* Math.round(num / den) for num >= 0 and den > 0 (halves round up)
Round(num, den) == (2 * num + den) \div (2 * den)

\* !text?.trim()
Blank(text) == \A i \in 1..Len(text) : text[i] = " "

Setting(type, name, markup) == [type |-> type, name |-> name, markup |-> markup]

defaultMarkupSettings ==
  <<Setting("manufacturer", "Cartier", 30),
    Setting("manufacturer", "Tiffany", 35),
    Setting("manufacturer", "Pandora", 25),
    Setting("manufacturer", "Swarovski", 28),
    Setting("manufacturer", "Local", 20),
    Setting("category", "Rings", 25),
    Setting("category", "Necklaces", 30),
    Setting("category", "Earrings", 28),
    Setting("category", "Bracelets", 32),
    Setting("category", "Watches", 40)>>

\* the fallback of getMarkupForProduct, in percent
DEFAULT_MARKUP == 20

\* Array.prototype.find on the settings: the markup of the first setting of
\* the type and name, 0 when there is none (undefined is as falsy as 0)
FindMarkup(settings, type, name) ==
  LET hits == {i \in 1..Len(settings) :
                 settings[i].type = type /\ settings[i].name = name}
  IN IF hits = {} THEN 0
     ELSE settings[CHOOSE i \in hits : \A j \in hits : i <= j].markup

\* (mutation: the category setting is looked up first)
GetMarkupCategoryFirst(manufacturer, category) ==
  LET manufacturerSetting == FindMarkup(defaultMarkupSettings, "manufacturer", manufacturer)
      categorySetting == FindMarkup(defaultMarkupSettings, "category", category)
  IN IF categorySetting # 0 THEN categorySetting
     ELSE IF manufacturerSetting # 0 THEN manufacturerSetting
     ELSE DEFAULT_MARKUP

GetMarkupForProduct(manufacturer, category) ==
  LET manufacturerSetting == FindMarkup(defaultMarkupSettings, "manufacturer", manufacturer)
      categorySetting == FindMarkup(defaultMarkupSettings, "category", category)
  IN IF manufacturerSetting # 0 THEN manufacturerSetting
     ELSE IF categorySetting # 0 THEN categorySetting
     ELSE DEFAULT_MARKUP

\* the quick multipliers 1.5, 2, 3, 4 and 10, in tenths
MWP_MULTIPLIERS == <<15, 20, 30, 40, 100>>

\* an argument that is passed as undefined, a state that is null
Undefined == "undefined"
NoError == "null"

\* the manufacturers and categories the lookup tables of the encoder know
KnownManufacturers ==
  {defaultMarkupSettings[i].name : i \in {j \in 1..Len(defaultMarkupSettings) :
                                            defaultMarkupSettings[j].type = "manufacturer"}}
KnownCategories ==
  {defaultMarkupSettings[i].name : i \in {j \in 1..Len(defaultMarkupSettings) :
                                            defaultMarkupSettings[j].type = "category"}}

\* the arguments of one generateBarcodes call
EncoderArgs(category, manufacturer, wholesalePrice, retailPrice, buyPrice, note) ==
  [category |-> category, manufacturer |-> manufacturer,
   wholesalePrice |-> wholesalePrice, retailPrice |-> retailPrice,
   buyPrice |-> buyPrice, note |-> note]

\* generateBarcodes of utils/barcodeGenerator: it fails on a non-positive
\* price, on a retail price that is not above the wholesale price and on an
\* unknown manufacturer or category; otherwise it returns the product code,
\* whose cipher holds the two prices, whose sku holds the manufacturer, the
\* category and the cipher, whose code128 is the sku and whose qrCode wraps
\* the sku with the note
GenerateBarcodes(a) ==
  IF \/ a.wholesalePrice <= 0 \/ a.retailPrice <= 0
     \/ a.retailPrice <= a.wholesalePrice
     \/ a.manufacturer \notin KnownManufacturers
     \/ a.category \notin KnownCategories
  THEN [ok |-> FALSE, sku |-> <<>>, cipher |-> <<>>, qrCode |-> <<>>, code128 |-> <<>>]
  ELSE LET cipher == <<a.wholesalePrice, a.retailPrice>>
           sku == <<a.manufacturer, a.category, cipher>>
       IN [ok |-> TRUE, sku |-> sku, cipher |-> cipher,
           qrCode |-> <<sku, a.note>>, code128 |-> sku]

\* the fields whose input handleChange strips of everything but digits
NumericFields == {"buy_price", "wholesale_price", "retail_price", "stock_level"}

\* the fields whose change schedules generateBarcode
BarcodeFields == {"manufacturer", "category", "wholesale_price", "retail_price"}

\* formData.manufacturer && formData.category && formData.wholesale_price &&
\* formData.retail_price
BarcodeReady(data) ==
  /\ data.manufacturer # "" /\ data.category # ""
  /\ data.wholesale_price # <<>> /\ data.retail_price # <<>>

\* formData.manufacturer && formData.category && formData.buy_price
MarkupReady(data) ==
  data.manufacturer # "" /\ data.category # "" /\ data.buy_price # <<>>

\* the dependencies of the two effects
MarkupDeps(data) == <<data.manufacturer, data.category, data.buy_price>>
BarcodeDeps(data) ==
  <<data.manufacturer, data.category, data.wholesale_price, data.retail_price>>

\* The state of one form is the record f of formData, selectedMultiplier,
\* qrCode, generatedSKU and error, with the generateBarcodes calls (calls)
\* and the onSubmit calls (submitted) of the step under way.

\* generateBarcode as created by a render of the form data `data`, taken to
\* the end of its await
GenerateBarcode(f, data) ==
  IF BarcodeReady(data)
  THEN LET wholesalePrice == ToNumber(data.wholesale_price)
           retailPrice == ToNumber(data.retail_price)
           args == EncoderArgs(data.category, data.manufacturer, wholesalePrice,
                               retailPrice, Undefined, data.additional_info)
           barcodes == GenerateBarcodes(args)
       IN IF wholesalePrice <= 0 \/ retailPrice <= 0
          THEN [f EXCEPT !.error = "Invalid price values"]
          ELSE IF ~barcodes.ok \/ barcodes.sku = <<>>
          THEN [f EXCEPT !.error = "Error generating barcode",
                         !.calls = Append(@, args)]
          ELSE [f EXCEPT !.error = NoError, !.qrCode = barcodes.qrCode,
                         !.generatedSKU = barcodes.sku,
                         !.calls = Append(@, args)]
  ELSE f

\* updatePricesBasedOnMarkup as created by a render of the form data `data`
\* and of the multiplier (0 for null); its updater is applied to the form
\* data of f
UpdatePricesBasedOnMarkup(f, data, multiplier) ==
  LET buyPrice == ToNumber(data.buy_price)
  IN IF buyPrice > 0
     THEN LET markup == GetMarkupForProduct(data.manufacturer, data.category)
              wholesalePrice == Round(buyPrice * (100 + markup), 100)
          IN [f EXCEPT !.formData.wholesale_price = NumberToString(wholesalePrice),
                       !.formData.retail_price =
                         IF multiplier # 0
                         THEN NumberToString(Round(wholesalePrice * multiplier, 10))
                         ELSE @]
     ELSE f

\* the two effects of the render of f that follows a render of the form
\* data old: each runs when one of its dependencies changed
Effects(f, old) ==
  LET data == f.formData
      f1 == IF MarkupDeps(data) # MarkupDeps(old) /\ MarkupReady(data)
            THEN UpdatePricesBasedOnMarkup(f, data, f.selectedMultiplier)
            ELSE f
  IN IF BarcodeDeps(data) # BarcodeDeps(old) /\ BarcodeReady(data)
     THEN GenerateBarcode(f1, data)
     ELSE f1

\* the renders that follow a state change, until no effect changes the form
\* data again
RECURSIVE Rendered(_, _)
Rendered(f, old) ==
  LET f1 == Effects(f, old)
  IN IF f1.formData = f.formData THEN f1 ELSE Rendered(f1, f.formData)

\* handleChange of the field `name` with the input `value`, with the renders
\* that follow and with the generateBarcode its updater schedules through
\* setTimeout, which is the one of the render before the change; staleLast
\* says whether that call completes after the calls of the effects
HandleChange(f, name, value, staleLast) ==
  LET newValue == IF name \in NumericFields THEN StripNonDigits(value) ELSE value
      newData == [f.formData EXCEPT ![name] = newValue]
      timer == name \in BarcodeFields /\ BarcodeReady(newData)
      f0 == [f EXCEPT !.error = NoError, !.formData = newData,
                      !.calls = <<>>, !.submitted = <<>>]
      Scheduled(g) == IF timer THEN GenerateBarcode(g, f.formData) ELSE g
  IN IF staleLast
     THEN Scheduled(Rendered(f0, f.formData))
     ELSE Rendered(Scheduled(f0), f.formData)

\* handleMultiplierChange, with the renders that follow
HandleMultiplierChange(f, multiplier) ==
  LET wholesale == ToNumber(f.formData.wholesale_price)
      f0 == [f EXCEPT !.selectedMultiplier = multiplier,
                      !.calls = <<>>, !.submitted = <<>>]
      f1 == IF wholesale > 0
            THEN [f0 EXCEPT !.formData.retail_price =
                              NumberToString(Round(wholesale * multiplier, 10))]
            ELSE f0
  IN Rendered(f1, f.formData)

\* the fields handleSubmit requires
RequiredTexts(data) ==
  <<data.buy_price, data.wholesale_price, data.retail_price, data.stock_level>>

MissingFields(data) ==
  \/ data.manufacturer = "" \/ data.category = ""
  \/ \E i \in 1..Len(RequiredTexts(data)) : Blank(RequiredTexts(data)[i])

\* the productData handed to onSubmit
ProductData(data, buyPrice, wholesalePrice, retailPrice, barcodes) ==
  [manufacturer |-> data.manufacturer, category |-> data.category,
   buy_price |-> buyPrice, wholesale_price |-> wholesalePrice,
   retail_price |-> retailPrice, stock_level |-> ToNumber(data.stock_level),
   additional_info |-> data.additional_info,
   sku |-> barcodes.sku, qr_code |-> barcodes.qrCode,
   code128 |-> barcodes.code128, cipher |-> barcodes.cipher]

\* handleSubmit, taken to its end, where loading is false again: what it
\* builds comes from the form data of its render, whatever happens during
\* its awaits (mutation: a wholesale price equal to the buy price passes)
HandleSubmitLax(f) ==
  LET data == f.formData
      buyPrice == ToNumber(data.buy_price)
      wholesalePrice == ToNumber(data.wholesale_price)
      retailPrice == ToNumber(data.retail_price)
      args == EncoderArgs(data.category, data.manufacturer, wholesalePrice,
                          retailPrice, Undefined, data.additional_info)
      barcodes == GenerateBarcodes(args)
      f0 == [f EXCEPT !.error = NoError, !.calls = <<>>, !.submitted = <<>>]
  IN IF MissingFields(data)
     THEN [f0 EXCEPT !.error = "Required fields missing"]
     ELSE IF buyPrice <= 0
     THEN [f0 EXCEPT !.error = "Buy price must be greater than 0"]
     ELSE IF wholesalePrice < buyPrice
     THEN [f0 EXCEPT !.error = "Wholesale price must be greater than buy price"]
     ELSE IF retailPrice <= wholesalePrice
     THEN [f0 EXCEPT !.error = "Retail price must be greater than wholesale price"]
     ELSE IF ~barcodes.ok
     THEN [f0 EXCEPT !.error = "Barcode generation failed", !.calls = <<args>>]
     ELSE IF barcodes.sku = <<>> \/ barcodes.qrCode = <<>> \/ barcodes.code128 = <<>>
     THEN [f0 EXCEPT !.error = "Failed to generate valid product barcodes",
                     !.calls = <<args>>]
     ELSE [f0 EXCEPT !.calls = <<args>>,
                     !.submitted = <<ProductData(data, buyPrice, wholesalePrice,
                                                 retailPrice, barcodes)>>]

HandleSubmit(f) ==
  LET data == f.formData
      buyPrice == ToNumber(data.buy_price)
      wholesalePrice == ToNumber(data.wholesale_price)
      retailPrice == ToNumber(data.retail_price)
      args == EncoderArgs(data.category, data.manufacturer, wholesalePrice,
                          retailPrice, Undefined, data.additional_info)
      barcodes == GenerateBarcodes(args)
      f0 == [f EXCEPT !.error = NoError, !.calls = <<>>, !.submitted = <<>>]
  IN IF MissingFields(data)
     THEN [f0 EXCEPT !.error = "Required fields missing"]
     ELSE IF buyPrice <= 0
     THEN [f0 EXCEPT !.error = "Buy price must be greater than 0"]
     ELSE IF wholesalePrice <= buyPrice
     THEN [f0 EXCEPT !.error = "Wholesale price must be greater than buy price"]
     ELSE IF retailPrice <= wholesalePrice
     THEN [f0 EXCEPT !.error = "Retail price must be greater than wholesale price"]
     ELSE IF ~barcodes.ok
     THEN [f0 EXCEPT !.error = "Barcode generation failed", !.calls = <<args>>]
     ELSE IF barcodes.sku = <<>> \/ barcodes.qrCode = <<>> \/ barcodes.code128 = <<>>
     THEN [f0 EXCEPT !.error = "Failed to generate valid product barcodes",
                     !.calls = <<args>>]
     ELSE [f0 EXCEPT !.calls = <<args>>,
                     !.submitted = <<ProductData(data, buyPrice, wholesalePrice,
                                                 retailPrice, barcodes)>>]

\* --------------------------------------------------------- symbol encoders
\* (generateCode128Bars and generateBarcodePattern of src/unnamed/part_000)
\* the characters of the texts encoded, with their UTF-16 codes
SymbolChars == <<"A", "C", "D", "1", "-", "a">>
CharCodes == <<65, 67, 68, 49, 45, 97>>

\* String.prototype.charCodeAt for one character
CharCodeAt(c) == CharCodes[CHOOSE i \in 1..Len(SymbolChars) : SymbolChars[i] = c]

\* the widths generateCode128Bars pushes for the character c at the 0-based
\* position i
Code128Group(c, i) ==
  LET charCode == CharCodeAt(c) % 32
  IN (IF i % 2 = 0 THEN <<1, 2, 2, 1, 1, 1>> ELSE <<1, 1, 2, 2, 1, 1>>)
     \o (IF charCode % 3 = 0 THEN <<2, 1, 1, 1, 2, 1>>
         ELSE IF charCode % 3 = 1 THEN <<1, 2, 1, 1, 1, 2>>
         ELSE <<1, 1, 2, 1, 2, 1>>)

\* the loop of generateCode128Bars from the 0-based position i on
RECURSIVE Code128Groups(_, _)
Code128Groups(text, i) ==
  IF i >= Len(text) THEN <<>>
  ELSE Code128Group(text[i + 1], i) \o Code128Groups(text, i + 1)

\* (mutation: the stop pattern is left out)
GenerateCode128BarsOpen(text) ==
  <<2, 1, 1, 2, 3, 2>> \o Code128Groups(text, 0)

GenerateCode128Bars(text) ==
  <<2, 1, 1, 2, 3, 2>> \o Code128Groups(text, 0) \o <<2, 3, 3, 1, 1, 1, 2>>

\* the widths generateBarcodePattern pushes for the character c
PatternOf(c) ==
  LET charCode == CharCodeAt(c)
  IN IF charCode >= 48 /\ charCode <= 57 THEN <<2, 1, 1, 2, 1, 1>>
     ELSE IF charCode >= 65 /\ charCode <= 90 THEN <<1, 2, 1, 1, 2, 1>>
     ELSE IF charCode >= 97 /\ charCode <= 122 THEN <<1, 1, 2, 1, 1, 2>>
     ELSE <<1, 1, 1, 2, 2, 1>>

RECURSIVE PatternsOf(_)
PatternsOf(text) ==
  IF text = <<>> THEN <<>> ELSE PatternOf(Head(text)) \o PatternsOf(Tail(text))

GenerateBarcodePattern(text) ==
  <<1, 2, 1, 2, 3, 2, 1>> \o PatternsOf(text) \o <<2, 3, 3, 1, 1, 1, 2>>

\* ---------------------------------------------------------- product store
\* (handleAddProduct and handleEditProduct of InventoryList in
\* src/unnamed/part_000 and of src/src/components/inventory/ProductList.tsx)
\* A row of the products table holds the columns the handlers write; a
\* column without a value is <<>>.

\* the field of the product data p named in requiredFields is falsy
MissingColumn(p) ==
  \/ p.manufacturer = "" \/ p.category = ""
  \/ p.buy_price = 0 \/ p.wholesale_price = 0 \/ p.retail_price = 0
  \/ p.stock_level = 0

\* the price checks of both handlers
PricesRefused(p) ==
  \/ p.buy_price <= 0
  \/ p.wholesale_price <= p.buy_price
  \/ p.retail_price <= p.wholesale_price

\* handleAddProduct on the product data p: the table after the insert;
\* inserted says whether the database accepted the row
HandleAddProduct(rows, p, inserted) ==
  IF MissingColumn(p) \/ PricesRefused(p) \/ ~inserted THEN rows
  ELSE <<[manufacturer |-> p.manufacturer, category |-> p.category,
          buy_price |-> p.buy_price, wholesale_price |-> p.wholesale_price,
          retail_price |-> p.retail_price, stock_level |-> p.stock_level,
          additional_info |-> p.additional_info,
          sku |-> p.sku, qr_code |-> p.qr_code, code128 |-> p.code128,
          cipher |-> p.cipher]>> \o rows

\* handleEditProduct on the product data p for the row at index editing
\* (0 when no product is being edited). dbData has no sku, and reads
\* qrCode and additionalInfo, which the product data of the form does not
\* have: an undefined value either is left out of the update (dropped) or
\* is written as an empty column.
HandleEditProduct(rows, editing, p, updated, dropped) ==
  IF editing = 0 THEN rows
  ELSE IF \/ p.buy_price = 0 \/ p.wholesale_price = 0 \/ p.retail_price = 0
          \/ p.stock_level = 0
          \/ PricesRefused(p) \/ ~updated
  THEN rows
  ELSE [rows EXCEPT ![editing] =
          [@ EXCEPT !.manufacturer = p.manufacturer,
                    !.buy_price = p.buy_price,
                    !.wholesale_price = p.wholesale_price,
                    !.retail_price = p.retail_price,
                    !.stock_level = p.stock_level,
                    !.category = p.category,
                    !.qr_code = IF dropped THEN @ ELSE <<>>,
                    !.code128 = p.code128,
                    !.cipher = p.cipher,
                    !.additional_info = IF dropped THEN @ ELSE <<>>]]

\* ------------------------------------------------------------------- state
VARIABLES
  scanning,        \* prop scanning
  bulkMode,        \* prop bulkMode
  debugMode,       \* state debugMode
  scannedSku,      \* prop scannedSku: the text of the visible field
  buffer,          \* ref buffer
  lastKeyTime,     \* ref lastKeyTime
  isShiftPressed,  \* ref isShiftPressed
  bulkItems,       \* state bulkItems
  listening,       \* the window listeners of the effect are registered
  listenerBulk,    \* bulkMode as closed over by the registered listeners
  bulkItemsMap,    \* keys of the bulkItemsMap closed over by the listeners
  now,             \* the clock read by Date.now()
  scanIdx,         \* characters of the current token the scanner has sent
  ev,              \* what the last step did
  twin,            \* the parser fed the same events with bulkMode inverted
  t3,              \* bulk scans of SKU_PATTERN since the ledger lacked it
  prevKeyAt,       \* the time of the last non-modifier keydown event
  stale,           \* the buffer holds characters older than a long gap
  fed,             \* characters of the two-token burst sent so far
  outLog,          \* the tokens dispatched since the burst began
  onBulkScan,      \* prop onBulkScan is passed
  inflight,        \* the arguments of the onBulkScan calls being awaited
  formData,        \* ProductForm state formData
  selectedMultiplier, \* ProductForm state selectedMultiplier (0 for null)
  qrCode,          \* ProductForm state qrCode
  generatedSKU,    \* ProductForm state generatedSKU
  error,           \* ProductForm state error
  encoderCalls,    \* the arguments of the generateBarcodes calls of the last step
  submitted,       \* the arguments of the onSubmit calls of the last step
  formEv,          \* what the last step of the form did
  twinForm,        \* a second form session, given other buy prices
  symText,         \* the text handed to the symbol encoders
  symBars,         \* what generateCode128Bars returned for it
  symPattern,      \* what generateBarcodePattern returned for it
  symPrev,         \* the text and the results before a character was replaced
  markupIn,        \* the names handed to getMarkupForProduct
  markupOut,       \* what getMarkupForProduct returned for them (0: not called)
  products,        \* the rows of the products table (of one product)
  storeEv,         \* what the last step of the store did
  showContactSearch, \* state showContactSearch
  searchTerm,      \* state searchTerm
  searchResults,   \* state searchResults
  searching,       \* state searching
  searchTimeout,   \* ref searchTimeout: the id of the timer last set, or 0
  timers,          \* the timers set and neither fired nor cleared
  typed,           \* the term last typed, the time since, and whether it
                   \* replaced a term whose delay had not passed
  lookups,         \* the customer requests in flight, in the order sent
  contactEv,       \* what the last step of the contact search did
  pbIn,            \* the buffer and the bulkMode handed to processBuffer
  pbOut,           \* what processBuffer dispatched for them
  skuIn,           \* the SKU of the product row and the viewer's permission
  skuOut,          \* what the row renders for them
  priceIn,         \* the names, prices and multiplier of a form
  priceOut         \* the prices the form fills in for them

vars == <<scanning, bulkMode, debugMode, scannedSku, buffer, lastKeyTime,
          isShiftPressed, bulkItems, listening, listenerBulk, bulkItemsMap,
          now, scanIdx, ev, twin, t3, prevKeyAt, stale, fed, outLog,
          onBulkScan, inflight, formData, selectedMultiplier, qrCode,
          generatedSKU, error, encoderCalls, submitted, formEv, twinForm,
          symText, symBars, symPattern, symPrev, markupIn, markupOut,
          products, storeEv, showContactSearch, searchTerm, searchResults,
          searching, searchTimeout, timers, typed, lookups, contactEv, pbIn, pbOut,
          skuIn, skuOut, priceIn, priceOut>>

\* what the registered listeners close over
closure == <<listening, listenerBulk, bulkItemsMap>>

\* the variables that only observe the key stream
keyObs == <<prevKeyAt, stale>>
burstObs == <<fed, outLog>>

\* the completion of a bulk scan
completeVars == <<onBulkScan, inflight>>

\* the product form
formVars == <<formData, selectedMultiplier, qrCode, generatedSKU, error,
              encoderCalls, submitted, formEv, twinForm>>

\* the product store
storeVars == <<products, storeEv>>

\* the inputs and results of the pure functions
symbolVars == <<symText, symBars, symPattern, symPrev>>
markupVars == <<markupIn, markupOut>>

\* the inputs and results of further pure functions
parserVars == <<pbIn, pbOut>>
skuVars == <<skuIn, skuOut>>
priceVars == <<priceIn, priceOut>>
benchVars == <<parserVars, skuVars, priceVars>>

\* what the handlers of the scanner leave alone
beyond == <<formVars, symbolVars, markupVars, storeVars, benchVars>>

\* the contact search of the scanner
contactVars == <<showContactSearch, searchTerm, searchResults, searching,
                 searchTimeout, timers, typed, lookups, contactEv>>

\* what the key and ledger handlers of the scanner leave alone
outside == <<completeVars, contactVars, beyond>>

\* the scanner and its ledger
scannerVars == <<scanning, bulkMode, debugMode, scannedSku, buffer, lastKeyTime,
                 isShiftPressed, bulkItems, listening, listenerBulk,
                 bulkItemsMap, now, scanIdx, ev, twin, t3, prevKeyAt, stale,
                 fed, outLog, completeVars>>

RECURSIVE TotalQuantity(_)
TotalQuantity(items) ==
  IF items = <<>> THEN 0 ELSE Head(items).quantity + TotalQuantity(Tail(items))

\* the quantities of the entries of sku, in ledger order
RECURSIVE QuantitiesOf(_, _)
QuantitiesOf(items, sku) ==
  IF items = <<>> THEN <<>>
  ELSE (IF Head(items).sku = sku THEN <<Head(items).quantity>> ELSE <<>>)
       \o QuantitiesOf(Tail(items), sku)

\* where each token of the dispatch d of one handler went
Sinks(d) ==
  [i \in 1..Len(d.tokens) |-> IF d.updates # <<>> THEN "ledger" ELSE "lookup"]

\* what a step did: the handler that ran, its key event, whether the event
\* came more than SCAN_TIMEOUT after the previous non-modifier key event
\* (late), whether the buffer held text (had), whether a dispatched token
\* was built from characters older than a long gap (usedStale), the bulkMode
\* the handler ran with, the tokens dispatched and where each went, and how
\* many of the tokens the window listener dispatched (heard)
Event(act, e, late, had, usedStale, bulk, tokens, sinks, heard) ==
  [act |-> act, key |-> e.key, ctrlKey |-> e.ctrlKey, late |-> late, had |-> had,
   usedStale |-> usedStale, bulk |-> bulk, tokens |-> tokens, sinks |-> sinks,
   heard |-> heard]

NoKey == KeyEvent(<<>>, FALSE)
Quiet(act) == Event(act, NoKey, FALSE, FALSE, FALSE, FALSE, <<>>, <<>>, 0)

\* the texts a user types into the visible field
FieldTexts == {<<>>, SKU_PATTERN, <<"A", "7">>}

\* keys pressed by hand; the scanner sends the characters of SKU_PATTERN
HumanKeys ==
  {KeyEvent(KeyX, FALSE), KeyEvent(KeyTab, FALSE), KeyEvent(KeyEnter, FALSE),
   KeyEvent(KeyEscape, FALSE), KeyEvent(KeyShift, FALSE),
   KeyEvent(KeyControl, TRUE), KeyEvent(KeyAlt, FALSE), KeyEvent(KeyD, TRUE)}

\* milliseconds between a key event and the one before it
Gaps == {0, SCAN_TIMEOUT, SCAN_TIMEOUT + 1}

\* the form data of a form opened without a product
EmptyForm ==
  [manufacturer |-> "", category |-> "", buy_price |-> <<>>,
   wholesale_price |-> <<>>, retail_price |-> <<>>, stock_level |-> <<>>,
   additional_info |-> <<>>]

FormOf(data, multiplier, qr, sku, err, calls, sent) ==
  [formData |-> data, selectedMultiplier |-> multiplier, qrCode |-> qr,
   generatedSKU |-> sku, error |-> err, calls |-> calls, submitted |-> sent]

InitComponents ==
  /\ scanning = FALSE
  /\ bulkMode = FALSE
  /\ debugMode = FALSE
  /\ scannedSku = <<>>
  /\ buffer = <<>>
  /\ lastKeyTime = 0
  /\ isShiftPressed = FALSE
  /\ bulkItems = <<>>
  /\ listening = FALSE
  /\ listenerBulk = FALSE
  /\ bulkItemsMap = {}
  /\ now = StartTime
  /\ scanIdx = 0
  /\ ev = Quiet("init")
  /\ twin = [buffer |-> <<>>, lastKeyTime |-> 0, tokens |-> <<>>, sinks |-> <<>>]
  /\ t3 = 0
  /\ prevKeyAt = 0
  /\ stale = FALSE
  /\ fed = 0
  /\ outLog = <<>>
  /\ onBulkScan = FALSE
  /\ inflight = <<>>
  /\ formData = EmptyForm
  /\ selectedMultiplier = 0
  /\ qrCode = <<>>
  /\ generatedSKU = <<>>
  /\ error = NoError
  /\ encoderCalls = <<>>
  /\ submitted = <<>>
  /\ formEv = [act |-> "init", name |-> ""]
  /\ twinForm = FormOf(EmptyForm, 0, <<>>, <<>>, NoError, <<>>, <<>>)
  /\ products = <<>>
  /\ storeEv = [act |-> "init", done |-> FALSE]
  /\ showContactSearch = FALSE
  /\ searchTerm = <<>>
  /\ searchResults = <<>>
  /\ searching = FALSE
  /\ searchTimeout = 0
  /\ timers = <<>>
  /\ typed = [term |-> <<>>, elapsed |-> 0, superseding |-> FALSE]
  /\ lookups = <<>>
  /\ contactEv = [act |-> "init", term |-> <<>>, overtaken |-> FALSE]

\* no character was replaced; no names were handed over
NoSymbol == [replaced |-> FALSE, text |-> <<>>, bars |-> <<>>, pattern |-> <<>>]
NoNames == [manufacturer |-> "", category |-> ""]

\* processBuffer was handed nothing
NoBuffer == [buffer |-> <<>>, bulk |-> FALSE]
NoTokens == [called |-> FALSE, buffer |-> <<>>, tokens |-> <<>>]
ParserIdle == pbIn = NoBuffer /\ pbOut = NoTokens

\* no product row was rendered
NoSku == [sku |-> <<>>, permitted |-> FALSE]
NoRow == [called |-> FALSE, text |-> <<>>, thrown |-> FALSE, badge |-> <<>>]
RowIdle == skuIn = NoSku /\ skuOut = NoRow

\* no price was filled in
NoPrices ==
  [manufacturer |-> "", category |-> "", buy |-> 0, wholesale |-> 0,
   multiplier |-> 0]
NoFilled == [op |-> "none", wholesale |-> <<>>, retail |-> <<>>]
PricesIdle == priceIn = NoPrices /\ priceOut = NoFilled

\* the symbol encoders and the markup lookup were handed nothing
EncodersIdle ==
  /\ symText = <<>>
  /\ symBars = <<>>
  /\ symPattern = <<>>
  /\ symPrev = NoSymbol
  /\ markupIn = NoNames
  /\ markupOut = 0

\* none of the further pure functions is under test
BenchIdle == ParserIdle /\ RowIdle /\ PricesIdle

\* no pure function is under test
Init ==
  /\ InitComponents
  /\ symText = <<>>
  /\ symBars = <<>>
  /\ symPattern = <<>>
  /\ symPrev = NoSymbol
  /\ markupIn = NoNames
  /\ markupOut = 0
  /\ BenchIdle

\* the scanner effect run for the render of props scan and bulk and of state
\* items: the previous listeners are removed; when scanning is on, new ones
\* are registered that close over bulk and over a bulkItemsMap built from
\* items
EffectClosure(scan, bulk, items) ==
  <<scan, scan /\ bulk, IF scan THEN MapKeys(items) ELSE {}>>

\* the listeners and what they close over after a step
SetClosure(c) ==
  /\ listening' = c[1]
  /\ listenerBulk' = c[2]
  /\ bulkItemsMap' = c[3]

\* a render begins: React first runs the effect still owed to the render
\* before it, so the listeners are those of the state the step started in
RenderAfterEffects == SetClosure(EffectClosure(scanning, bulkMode, bulkItems))

\* the model's bound on the clock: a key event gap milliseconds from now
TimeAllows(gap, n) == now + gap <= StartTime + n

\* the model's bound on the ledger and the count t3
LedgerWithin(n) ==
  /\ Len(bulkItems) <= n
  /\ TotalQuantity(bulkItems) <= n
  /\ t3 <= n

\* t3 counts the bulk scans of SKU_PATTERN since the ledger last lacked it
\* (-1 once SKU_PATTERN was submitted by hand, or a row was removed while
\* SKU_PATTERN stayed in the ledger)
Count3(d, bulk) ==
  IF bulk /\ t3 >= 0
  THEN t3 + Cardinality({i \in 1..Len(d.tokens) : d.tokens[i] = SKU_PATTERN})
  ELSE t3

\* the parent turns the scanning prop on
EnableScanning ==
  /\ ~scanning
  /\ scanning' = TRUE
  /\ RenderAfterEffects
  /\ ev' = Quiet("enable")
  /\ twin' = [twin EXCEPT !.tokens = <<>>, !.sinks = <<>>]
  /\ UNCHANGED <<bulkMode, debugMode, scannedSku, buffer, lastKeyTime,
                 isShiftPressed, bulkItems, now, scanIdx, t3, keyObs, burstObs>>
  /\ UNCHANGED outside

\* the window keydown listener, registered with the closure (bulk, map),
\* handles event e at time t: the handler's result r, the result rt of the
\* twin, and what the step means for the observers of the key stream
Listen(e, t, bulk, map) ==
  LET r == HandleKeyDown(e, t, buffer, lastKeyTime, isShiftPressed, bulk, map)
      rt == HandleKeyDown(e, t, twin.buffer, twin.lastKeyTime, isShiftPressed,
                          ~bulk, map)
      \* what the handler does with the same event on an empty buffer
      fresh == HandleKeyDown(e, t, <<>>, lastKeyTime, isShiftPressed, bulk, map)
      late == ~IsModifier(e.key) /\ t - prevKeyAt > SCAN_TIMEOUT
      old == buffer # <<>> /\ (stale \/ late)
  IN [r |-> r, rt |-> rt, late |-> late,
      usedStale |-> old /\ r.d.tokens # fresh.d.tokens,
      stale |-> old /\ r.buffer # fresh.buffer,
      prevKeyAt |-> IF IsModifier(e.key) THEN prevKeyAt ELSE t]

\* no window listener is registered: the event changes nothing
Unheard ==
  LET same == [exit |-> "none", buffer |-> buffer, lastKeyTime |-> lastKeyTime,
               shift |-> isShiftPressed, d |-> NoDispatch]
  IN [r |-> same,
      rt |-> [same EXCEPT !.buffer = twin.buffer, !.lastKeyTime = twin.lastKeyTime],
      late |-> FALSE, usedStale |-> FALSE, stale |-> stale, prevKeyAt |-> prevKeyAt]

\* a keydown event reaches the registered window listener gap milliseconds
\* after the previous key event; a handler that sets state causes a render
KeyDown(e, gap) ==
  /\ listening
  /\ now' = now + gap
  /\ LET w == Listen(e, now + gap, listenerBulk, bulkItemsMap)
     IN /\ buffer' = w.r.buffer
        /\ lastKeyTime' = w.r.lastKeyTime
        /\ isShiftPressed' = w.r.shift
        /\ twin' = [buffer |-> w.rt.buffer, lastKeyTime |-> w.rt.lastKeyTime,
                    tokens |-> w.rt.d.tokens, sinks |-> Sinks(w.rt.d)]
        /\ ev' = Event("keydown", e, w.late, buffer # <<>>, w.usedStale,
                       listenerBulk, w.r.d.tokens, Sinks(w.r.d), Len(w.r.d.tokens))
        /\ prevKeyAt' = w.prevKeyAt
        /\ stale' = w.stale
        /\ t3' = Count3(w.r.d, listenerBulk)
        /\ scannedSku' = IF w.r.d.lookups # <<>> THEN <<>> ELSE scannedSku
        /\ bulkItems' = ApplyAll(bulkItems, w.r.d.updates)
        /\ scanning' = IF w.r.exit = "escape" THEN FALSE ELSE scanning
        /\ debugMode' = IF w.r.exit = "debug" THEN ~debugMode ELSE debugMode
        /\ IF w.r.exit # "none" \/ w.r.d.tokens # <<>>
           THEN RenderAfterEffects
           ELSE UNCHANGED closure
  /\ UNCHANGED bulkMode
  /\ UNCHANGED outside

\* the key of character c is pressed while the visible field has the focus,
\* gap milliseconds after the previous key event: the keydown event reaches
\* the window listener when one is registered, then the character is put
\* into the field and its onChange hands the new text to the parent
FocusedKey(c, gap) ==
  /\ scanning
  /\ now' = now + gap
  /\ LET e == KeyEvent(<<c>>, FALSE)
         w == IF listening THEN Listen(e, now + gap, listenerBulk, bulkItemsMap)
              ELSE Unheard
         items1 == ApplyAll(bulkItems, w.r.d.updates)
     IN /\ buffer' = w.r.buffer
        /\ lastKeyTime' = w.r.lastKeyTime
        /\ isShiftPressed' = w.r.shift
        /\ twin' = [buffer |-> w.rt.buffer, lastKeyTime |-> w.rt.lastKeyTime,
                    tokens |-> w.rt.d.tokens, sinks |-> Sinks(w.rt.d)]
        /\ ev' = Event("keydown", e, w.late, buffer # <<>>, w.usedStale,
                       listenerBulk, w.r.d.tokens, Sinks(w.r.d), Len(w.r.d.tokens))
        /\ prevKeyAt' = w.prevKeyAt
        /\ stale' = w.stale
        /\ t3' = Count3(w.r.d, listenerBulk)
        /\ scannedSku' = (IF w.r.d.lookups # <<>> THEN <<>> ELSE scannedSku) \o <<c>>
        /\ bulkItems' = items1
        /\ SetClosure(EffectClosure(scanning, bulkMode, items1))
  /\ UNCHANGED <<scanning, bulkMode, debugMode>>
  /\ UNCHANGED outside

\* a keyup event reaches the registered window listener
KeyUp(e) ==
  /\ listening
  /\ isShiftPressed' = HandleKeyUp(e, isShiftPressed)
  /\ ev' = Event("keyup", e, FALSE, FALSE, FALSE, listenerBulk, <<>>, <<>>, 0)
  /\ twin' = [twin EXCEPT !.tokens = <<>>, !.sinks = <<>>]
  /\ UNCHANGED <<scanning, bulkMode, debugMode, scannedSku, buffer, lastKeyTime,
                 bulkItems, closure, now, scanIdx, t3, keyObs, burstObs>>
  /\ UNCHANGED outside

\* the parent changes the bulkMode prop
SetBulkMode(b) ==
  /\ b # bulkMode
  /\ bulkMode' = b
  /\ RenderAfterEffects
  /\ ev' = Quiet("bulk")
  /\ twin' = [twin EXCEPT !.tokens = <<>>, !.sinks = <<>>]
  /\ UNCHANGED <<scanning, debugMode, scannedSku, buffer, lastKeyTime,
                 isShiftPressed, bulkItems, now, scanIdx, t3, keyObs, burstObs>>
  /\ UNCHANGED outside

\* onChange of the visible field
FieldChange(text) ==
  /\ scanning
  /\ text # scannedSku
  /\ scannedSku' = text
  /\ RenderAfterEffects
  /\ ev' = Quiet("field")
  /\ twin' = [twin EXCEPT !.tokens = <<>>, !.sinks = <<>>]
  /\ UNCHANGED <<scanning, bulkMode, debugMode, buffer, lastKeyTime,
                 isShiftPressed, bulkItems, now, scanIdx, t3, keyObs, burstObs>>
  /\ UNCHANGED outside

\* Enter is pressed in the visible field gap milliseconds after the previous
\* key event: the field's onKeyDown calls handleManualSubmit, then the same
\* event bubbles to the window listener when one is registered. The render
\* caused by handleManualSubmit comes before the window listener runs; with
\* sync its effect has run too and the listener is the one of that render,
\* otherwise the listener is the one of the render before
ManualSubmit(gap, sync) ==
  /\ scanning
  /\ now' = now + gap
  /\ LET e == KeyEvent(KeyEnter, FALSE)
         m == HandleManualSubmit(scannedSku, bulkMode, bulkItems)
         mt == HandleManualSubmit(scannedSku, ~bulkMode, bulkItems)
         items1 == ApplyAll(bulkItems, m.d.updates)
         cl == IF m.d.tokens = <<>> THEN closure
               ELSE IF sync THEN EffectClosure(scanning, bulkMode, items1)
               ELSE EffectClosure(scanning, bulkMode, bulkItems)
         w == IF cl[1] THEN Listen(e, now + gap, cl[2], cl[3]) ELSE Unheard
     IN /\ bulkItems' = ApplyAll(items1, w.r.d.updates)
        /\ SetClosure(IF w.r.d.tokens # <<>>
                      THEN EffectClosure(scanning, bulkMode, items1)
                      ELSE cl)
        /\ buffer' = w.r.buffer
        /\ lastKeyTime' = w.r.lastKeyTime
        /\ scannedSku' = IF m.clearField \/ w.r.d.lookups # <<>> THEN <<>> ELSE scannedSku
        /\ ev' = Event("manual", e, w.late, buffer # <<>>, w.usedStale, bulkMode,
                       m.d.tokens \o w.r.d.tokens, Sinks(m.d) \o Sinks(w.r.d),
                       Len(w.r.d.tokens))
        /\ twin' = [buffer |-> w.rt.buffer, lastKeyTime |-> w.rt.lastKeyTime,
                    tokens |-> mt.d.tokens \o w.rt.d.tokens,
                    sinks |-> Sinks(mt.d) \o Sinks(w.rt.d)]
        /\ prevKeyAt' = w.prevKeyAt
        /\ stale' = w.stale
        /\ t3' = IF bulkMode /\ m.d.tokens = <<SKU_PATTERN>> THEN -1
                 ELSE Count3(w.r.d, cl[2])
  /\ UNCHANGED <<scanning, bulkMode, debugMode, isShiftPressed, scanIdx, burstObs>>
  /\ UNCHANGED outside

\* the Clear All button
ClearAll ==
  /\ scanning /\ bulkMode
  /\ Len(bulkItems) # 0
  /\ bulkItems' = ApplyUpdate(bulkItems, UpdClear)
  /\ RenderAfterEffects
  /\ ev' = Quiet("clear")
  /\ twin' = [twin EXCEPT !.tokens = <<>>, !.sinks = <<>>]
  /\ t3' = 0
  /\ UNCHANGED <<scanning, bulkMode, debugMode, scannedSku, buffer, lastKeyTime,
                 isShiftPressed, now, scanIdx, keyObs, burstObs>>
  /\ UNCHANGED outside

\* the remove button of the rendered row index (0-based in the source)
RemoveItem(index) ==
  /\ scanning /\ bulkMode
  /\ index \in 1..Len(bulkItems)
  /\ bulkItems' = ApplyUpdate(bulkItems, UpdRemoveAt(index))
  /\ RenderAfterEffects
  /\ ev' = Quiet("remove")
  /\ twin' = [twin EXCEPT !.tokens = <<>>, !.sinks = <<>>]
  /\ t3' = IF QuantitiesOf(ApplyUpdate(bulkItems, UpdRemoveAt(index)),
                           SKU_PATTERN) = <<>>
           THEN 0 ELSE -1
  /\ UNCHANGED <<scanning, bulkMode, debugMode, scannedSku, buffer, lastKeyTime,
                 isShiftPressed, now, scanIdx, keyObs, burstObs>>
  /\ UNCHANGED outside

\* React runs the effect owed to the last render
RunEffect ==
  /\ closure # EffectClosure(scanning, bulkMode, bulkItems)
  /\ SetClosure(EffectClosure(scanning, bulkMode, bulkItems))
  /\ ev' = Quiet("effect")
  /\ twin' = [twin EXCEPT !.tokens = <<>>, !.sinks = <<>>]
  /\ UNCHANGED <<scanning, bulkMode, debugMode, scannedSku, buffer, lastKeyTime,
                 isShiftPressed, bulkItems, now, scanIdx, t3, keyObs, burstObs>>
  /\ UNCHANGED outside

\* handleBulkComplete up to its await: whether onBulkScan is called, and
\* the argument (mutation: an empty list is passed)
HandleBulkCompleteEmpty(callback, items) ==
  IF callback /\ Len(items) > 0
  THEN [call |-> TRUE, arg |-> <<>>]
  ELSE [call |-> FALSE, arg |-> <<>>]

HandleBulkComplete(callback, items) ==
  IF callback /\ Len(items) > 0
  THEN [call |-> TRUE, arg |-> items]
  ELSE [call |-> FALSE, arg |-> <<>>]

\* the parent passes or withdraws the onBulkScan prop
SetOnBulkScan(b) ==
  /\ b # onBulkScan
  /\ onBulkScan' = b
  /\ RenderAfterEffects
  /\ ev' = Quiet("callback")
  /\ twin' = [twin EXCEPT !.tokens = <<>>, !.sinks = <<>>]
  /\ UNCHANGED <<scanning, bulkMode, debugMode, scannedSku, buffer, lastKeyTime,
                 isShiftPressed, bulkItems, now, scanIdx, t3, keyObs, burstObs,
                 inflight, contactVars, beyond>>

\* the Complete Bulk Scan button (disabled while the ledger is empty)
Complete ==
  /\ scanning /\ bulkMode
  /\ Len(bulkItems) # 0
  /\ Len(inflight) < MaxInFlight
  /\ LET r == HandleBulkComplete(onBulkScan, bulkItems)
     IN inflight' = IF r.call THEN Append(inflight, r.arg) ELSE inflight
  /\ ev' = Quiet("complete")
  /\ twin' = [twin EXCEPT !.tokens = <<>>, !.sinks = <<>>]
  /\ UNCHANGED <<scanning, bulkMode, debugMode, scannedSku, buffer, lastKeyTime,
                 isShiftPressed, bulkItems, closure, now, scanIdx, t3, keyObs,
                 burstObs, onBulkScan, contactVars, beyond>>

\* the promise of the i-th awaited onBulkScan call resolves: handleBulkComplete
\* continues after its await
CompleteResolved(i) ==
  /\ i \in 1..Len(inflight)
  /\ inflight' = RemoveAt(inflight, i)
  /\ bulkItems' = ApplyUpdate(bulkItems, UpdClear)
  /\ RenderAfterEffects
  /\ ev' = Quiet("resolve")
  /\ twin' = [twin EXCEPT !.tokens = <<>>, !.sinks = <<>>]
  /\ t3' = 0
  /\ UNCHANGED <<scanning, bulkMode, debugMode, scannedSku, buffer, lastKeyTime,
                 isShiftPressed, now, scanIdx, keyObs, burstObs, onBulkScan,
                 contactVars, beyond>>

\* the promise of the i-th awaited onBulkScan call rejects: the await throws
\* and handleBulkComplete ends
CompleteRejected(i) ==
  /\ i \in 1..Len(inflight)
  /\ inflight' = RemoveAt(inflight, i)
  /\ ev' = Quiet("reject")
  /\ twin' = [twin EXCEPT !.tokens = <<>>, !.sinks = <<>>]
  /\ UNCHANGED <<scanning, bulkMode, debugMode, scannedSku, buffer, lastKeyTime,
                 isShiftPressed, bulkItems, closure, now, scanIdx, t3, keyObs,
                 burstObs, onBulkScan, contactVars, beyond>>

\* ------------------------------------------------- Spec: the scan parser
\* the scanner sends the next character of the token
ScannerKey(gap) ==
  /\ TimeAllows(gap, MaxElapsed)
  /\ KeyDown(KeyEvent(<<SKU_PATTERN[scanIdx + 1]>>, FALSE), gap)
  /\ scanIdx' = (scanIdx + 1) % Len(SKU_PATTERN)
  /\ UNCHANGED burstObs

\* a key pressed by hand
HumanKey(e, gap) ==
  /\ TimeAllows(gap, MaxElapsed)
  /\ scanIdx <= MaxHandAt
  /\ e.key \in {KeyX, KeyTab} => scanIdx = 0 /\ Len(buffer) < MaxJunk
  /\ KeyDown(e, gap)
  /\ UNCHANGED <<scanIdx, burstObs>>

Next ==
  \/ EnableScanning
  \/ \E gap \in Gaps : ScannerKey(gap)
  \/ \E e \in HumanKeys, gap \in Gaps : HumanKey(e, gap)
  \/ KeyUp(KeyEvent(KeyShift, FALSE))
  \/ RunEffect

Spec == Init /\ [][Next]_vars

\* ------------------------------------------ SpecLedger: the bulk ledger
\* the scanner sends the next character of the token, without a pause
LedgerScanKey ==
  /\ KeyDown(KeyEvent(<<SKU_PATTERN[scanIdx + 1]>>, FALSE), 0)
  /\ scanIdx' = (scanIdx + 1) % Len(SKU_PATTERN)
  /\ UNCHANGED burstObs
  /\ LedgerWithin(MaxLedger)'

\* Enter pressed by hand in the visible field between two scans, without a
\* pause
LedgerSubmit(sync) ==
  /\ scanIdx = 0
  /\ ManualSubmit(0, sync)
  /\ LedgerWithin(MaxLedger)'

LedgerClear == ClearAll /\ LedgerWithin(MaxLedger)'

LedgerRemove(index) == RemoveItem(index) /\ LedgerWithin(MaxLedger)'

NextLedger ==
  \/ EnableScanning
  \/ LedgerScanKey
  \/ \E b \in BOOLEAN : SetBulkMode(b)
  \/ \E text \in FieldTexts : FieldChange(text)
  \/ \E sync \in BOOLEAN : LedgerSubmit(sync)
  \/ LedgerClear
  \/ \E index \in 1..MaxLedger : LedgerRemove(index)
  \/ RunEffect

SpecLedger == Init /\ [][NextLedger]_vars

\* ------------------------------------- SpecBurst: two tokens back to back
BurstLen == 2 * Len(SKU_PATTERN)

\* text typed by hand before the burst starts
BurstPrefix(gap) ==
  /\ TimeAllows(gap, MaxBurstElapsed)
  /\ fed = 0
  /\ Len(buffer) < MaxJunk
  /\ KeyDown(KeyEvent(KeyX, FALSE), gap)
  /\ UNCHANGED <<scanIdx, burstObs>>

\* the scanner sends the next character of the two tokens; inside the burst
\* no gap exceeds SCAN_TIMEOUT
BurstKey(gap) ==
  /\ TimeAllows(gap, MaxBurstElapsed)
  /\ fed < BurstLen
  /\ fed > 0 => gap <= SCAN_TIMEOUT
  /\ KeyDown(KeyEvent(<<SKU_PATTERN[scanIdx + 1]>>, FALSE), gap)
  /\ scanIdx' = (scanIdx + 1) % Len(SKU_PATTERN)
  /\ fed' = fed + 1
  /\ outLog' = outLog \o ev'.tokens
  /\ LedgerWithin(MaxLedger)'

\* bulk mode is chosen before the burst
BurstMode(b) == fed = 0 /\ SetBulkMode(b)

NextBurst ==
  \/ EnableScanning
  \/ \E gap \in Gaps : BurstPrefix(gap)
  \/ \E gap \in Gaps : BurstKey(gap)
  \/ \E b \in BOOLEAN : BurstMode(b)
  \/ RunEffect

SpecBurst == Init /\ [][NextBurst]_vars

\* ---------------------------- SpecFocus: scans into the focused field
\* the scanner types the next character of a token into the focused field
\* once the window listener is registered, without a pause; a token is
\* followed by Enter
FocusedScanKey ==
  /\ listening
  /\ fed < BurstLen
  /\ (scanIdx = 0 /\ fed > 0) => ev.act # "keydown"
  /\ FocusedKey(SKU_PATTERN[scanIdx + 1], 0)
  /\ scanIdx' = (scanIdx + 1) % Len(SKU_PATTERN)
  /\ fed' = fed + 1
  /\ outLog' = outLog \o ev'.tokens

\* the scanner ends the token with Enter
FocusedEnter(sync) ==
  /\ scanIdx = 0 /\ fed > 0
  /\ ev.act = "keydown"
  /\ ManualSubmit(0, sync)

\* the parent changes the mode between two scans
FocusMode(b) ==
  /\ scanIdx = 0
  /\ ev.act # "keydown"
  /\ SetBulkMode(b)

NextFocus ==
  \/ EnableScanning
  \/ \E b \in BOOLEAN : FocusMode(b)
  \/ FocusedScanKey
  \/ \E sync \in BOOLEAN : FocusedEnter(sync)
  \/ RunEffect

SpecFocus == Init /\ [][NextFocus]_vars

\* ------------------------------------------- SpecCap: the buffer length cap
\* a printable key pressed by hand, without a pause
CapKey ==
  /\ scanIdx = 0
  /\ KeyDown(KeyEvent(KeyX, FALSE), 0)
  /\ UNCHANGED <<scanIdx, burstObs>>

\* a named key pressed when the buffer is about to reach the cap
CapNamedKey ==
  /\ scanIdx = 0
  /\ Len(buffer) + Len(KeyTab) > BUFFER_LIMIT
  /\ KeyDown(KeyEvent(KeyTab, FALSE), 0)
  /\ UNCHANGED <<scanIdx, burstObs>>

\* the scanner sends a token once the buffer is nearly full
CapScanKey ==
  /\ scanIdx > 0 \/ Len(buffer) + Len(SKU_PATTERN) >= BUFFER_LIMIT
  /\ KeyDown(KeyEvent(<<SKU_PATTERN[scanIdx + 1]>>, FALSE), 0)
  /\ scanIdx' = (scanIdx + 1) % Len(SKU_PATTERN)
  /\ UNCHANGED burstObs

NextCap ==
  \/ EnableScanning
  \/ CapKey
  \/ CapNamedKey
  \/ CapScanKey
  \/ RunEffect

SpecCap == Init /\ [][NextCap]_vars

\* -------------------------------- SpecComplete: completing a bulk scan
NextComplete ==
  \/ EnableScanning
  \/ \E b \in BOOLEAN : SetBulkMode(b)
  \/ \E b \in BOOLEAN : SetOnBulkScan(b)
  \/ \E text \in FieldTexts : FieldChange(text)
  \/ \E sync \in BOOLEAN : LedgerSubmit(sync)
  \/ LedgerClear
  \/ \E index \in 1..MaxLedger : LedgerRemove(index)
  \/ Complete
  \/ \E i \in 1..MaxInFlight : CompleteResolved(i)
  \/ \E i \in 1..MaxInFlight : CompleteRejected(i)
  \/ RunEffect

SpecComplete == Init /\ [][NextComplete]_vars

\* ------------------------------------------ SpecForm: the product form
\* the state of the form as one record, and its assignment
FormState ==
  FormOf(formData, selectedMultiplier, qrCode, generatedSKU, error, <<>>, <<>>)

SetForm(f) ==
  /\ formData' = f.formData
  /\ selectedMultiplier' = f.selectedMultiplier
  /\ qrCode' = f.qrCode
  /\ generatedSKU' = f.generatedSKU
  /\ error' = f.error
  /\ encoderCalls' = f.calls
  /\ submitted' = f.submitted

\* the options of the two select fields; Acme has no setting and no code
ManufacturerOptions == {"Cartier", "Acme"}
CategoryOptions == {"Rings"}

\* what is typed into the price fields and into the stock field
BuyInputs == {<<"0">>, <<"5">>, <<"-", "1", "0">>}
WholesaleInputs == {<<>>, <<"1", "0">>}
RetailInputs == {<<"1", "0">>, <<"2", "0">>}
StockInputs == {<<"3">>}

\* the inputs of each field
InputsOf(name) ==
  CASE name = "manufacturer" -> ManufacturerOptions
    [] name = "category" -> CategoryOptions
    [] name = "buy_price" -> BuyInputs
    [] name = "wholesale_price" -> WholesaleInputs
    [] name = "retail_price" -> RetailInputs
    [] name = "stock_level" -> StockInputs

\* a change event of the field `name`; the second session is given value2
\* where the field is the buy price, and the same value elsewhere
FormChange(name, value, value2, staleLast) ==
  /\ SetForm(HandleChange(FormState, name, value, staleLast))
  /\ twinForm' = HandleChange(twinForm, name,
                              IF name = "buy_price" THEN value2 ELSE value,
                              staleLast)
  /\ formEv' = [act |-> "change", name |-> name]
  /\ UNCHANGED <<scannerVars, symbolVars, markupVars, storeVars, contactVars, benchVars>>

\* a click on the i-th quick multiplier
MultiplierChange(i) ==
  /\ SetForm(HandleMultiplierChange(FormState, MWP_MULTIPLIERS[i]))
  /\ twinForm' = HandleMultiplierChange(twinForm, MWP_MULTIPLIERS[i])
  /\ formEv' = [act |-> "multiplier", name |-> ""]
  /\ UNCHANGED <<scannerVars, symbolVars, markupVars, storeVars, contactVars, benchVars>>

\* the submit event of the form
Submit ==
  /\ SetForm(HandleSubmit(FormState))
  /\ twinForm' = HandleSubmit(twinForm)
  /\ formEv' = [act |-> "submit", name |-> ""]
  /\ UNCHANGED <<scannerVars, symbolVars, markupVars, storeVars, contactVars, benchVars>>

\* one session: both forms are given the same inputs
EditField ==
  \E name \in NumericFields \cup {"manufacturer", "category"} :
    \E value \in InputsOf(name) : \E staleLast \in BOOLEAN :
      FormChange(name, value, value, staleLast)

NextForm ==
  \/ EditField
  \/ \E i \in 1..MaxMultipliers : MultiplierChange(i)
  \/ Submit

SpecForm == Init /\ [][NextForm]_vars

\* ------------------------- SpecSessions: two sessions of the product form
\* the fields edited in the two sessions, with their inputs: the wholesale
\* price is left to updatePricesBasedOnMarkup
SessionFields == {"manufacturer", "category", "buy_price", "retail_price"}

SessionInputsOf(name) ==
  CASE name = "manufacturer" -> {"Cartier"}
    [] name = "retail_price" -> {<<"2", "0">>}
    [] OTHER -> InputsOf(name)

\* both forms are given the same inputs, except for the buy prices entered
SessionEdit ==
  \E name \in SessionFields :
    \E value \in SessionInputsOf(name) : \E value2 \in SessionInputsOf(name) :
      \E staleLast \in BOOLEAN :
        FormChange(name, value, value2, staleLast)

NextSessions ==
  \/ SessionEdit
  \/ \E i \in 1..MaxMultipliers : MultiplierChange(i)
  \/ Submit

SpecSessions == Init /\ [][NextSessions]_vars

\* ------------------------------------- SpecSymbols: the symbol encoders
\* the texts handed to the symbol encoders
SymbolTexts ==
  UNION {[1..n -> {SymbolChars[i] : i \in 1..Len(SymbolChars)}] : n \in 0..MaxSymbolLen}

InitSymbols ==
  /\ InitComponents
  /\ symText \in SymbolTexts
  /\ symBars = <<>>
  /\ symPattern = <<>>
  /\ symPrev = NoSymbol
  /\ markupIn = NoNames
  /\ markupOut = 0
  /\ BenchIdle

\* both encoders are applied to the text
EncodeSymbols ==
  /\ symBars' = GenerateCode128Bars(symText)
  /\ symPattern' = GenerateBarcodePattern(symText)
  /\ UNCHANGED <<symText, symPrev, markupVars, scannerVars, formVars, storeVars, contactVars, benchVars>>

\* the character at the 0-based position i of an encoded text is replaced by
\* another character c, and the new text is encoded
ReplaceCharacter(i, c) ==
  /\ symBars # <<>>
  /\ i < Len(symText)
  /\ c # symText[i + 1]
  /\ symPrev' = [replaced |-> TRUE, text |-> symText, bars |-> symBars,
                 pattern |-> symPattern]
  /\ symText' = [symText EXCEPT ![i + 1] = c]
  /\ symBars' = GenerateCode128Bars(symText')
  /\ symPattern' = GenerateBarcodePattern(symText')
  /\ UNCHANGED <<markupVars, scannerVars, formVars, storeVars, contactVars, benchVars>>

NextSymbols ==
  \/ EncodeSymbols
  \/ \E i \in 0..(MaxSymbolLen - 1) : \E k \in 1..Len(SymbolChars) :
       ReplaceCharacter(i, SymbolChars[k])

SpecSymbols == InitSymbols /\ [][NextSymbols]_vars

\* ------------------------------------------ SpecMarkup: the markup lookup
\* the names getMarkupForProduct is asked about: those of the settings, one
\* without a setting, and the empty selection
MarkupNames ==
  {defaultMarkupSettings[i].name : i \in 1..Len(defaultMarkupSettings)}
    \cup {"Acme", ""}

InitMarkup ==
  /\ InitComponents
  /\ symText = <<>>
  /\ symBars = <<>>
  /\ symPattern = <<>>
  /\ symPrev = NoSymbol
  /\ markupIn \in [manufacturer : MarkupNames, category : MarkupNames]
  /\ markupOut = 0
  /\ BenchIdle

\* getMarkupForProduct is applied to the pair
LookupMarkup ==
  /\ markupOut' = GetMarkupForProduct(markupIn.manufacturer, markupIn.category)
  /\ UNCHANGED <<markupIn, symbolVars, scannerVars, formVars, storeVars, contactVars, benchVars>>

NextMarkup == LookupMarkup

SpecMarkup == InitMarkup /\ [][NextMarkup]_vars

\* ------------------------------------------ SpecStore: the product store
\* the form data submitted to the store
StoreForms ==
  [manufacturer : {"Cartier", "Tiffany"}, category : {"Rings"},
   buy_price : {<<"5">>, <<"6">>},
   wholesale_price : {<<"1", "0">>, <<"1", "2">>},
   retail_price : {<<"1", "0">>, <<"2", "0">>, <<"3", "0">>},
   stock_level : {<<"3">>}, additional_info : {<<>>, <<"n">>}]

\* the onSubmit calls of a submit of the form data
SubmittedBy(data) ==
  HandleSubmit(FormOf(data, 0, <<>>, <<>>, NoError, <<>>, <<>>)).submitted

\* the form of a new product is submitted: onSubmit is handleAddProduct.
\* The table is followed for one product: a row is updated by its id and no
\* handler reads another row.
AddProduct(data, inserted) ==
  /\ products = <<>>
  /\ SubmittedBy(data) # <<>>
  /\ products' = HandleAddProduct(products, SubmittedBy(data)[1], inserted)
  /\ storeEv' = [act |-> "add", done |-> inserted]
  /\ UNCHANGED <<scannerVars, formVars, symbolVars, markupVars, contactVars, benchVars>>

\* the form of the product at index editing is submitted: onSubmit is
\* handleEditProduct
EditProduct(editing, data, updated, dropped) ==
  /\ editing \in 1..Len(products)
  /\ SubmittedBy(data) # <<>>
  /\ products' = HandleEditProduct(products, editing, SubmittedBy(data)[1],
                                   updated, dropped)
  /\ storeEv' = [act |-> "edit", done |-> updated]
  /\ UNCHANGED <<scannerVars, formVars, symbolVars, markupVars, contactVars, benchVars>>

NextStore ==
  \/ \E data \in StoreForms : \E inserted \in BOOLEAN : AddProduct(data, inserted)
  \/ \E data \in StoreForms : \E updated \in BOOLEAN : \E dropped \in BOOLEAN :
       EditProduct(1, data, updated, dropped)

SpecStore == Init /\ [][NextStore]_vars

\* ------------------------------------- SpecContact: the contact search
\* (handleContactSearch, handleSelectContact and the modal of
\* ProductScanner.tsx)
\* the customers table: names in lower case, as ilike ignores case
Customers == <<<<"a", "n">>, <<"a", "n", "n">>, <<"b", "o">>>>

\* the rows the query of a term returns: the customers whose name holds it
RECURSIVE Matching(_, _)
Matching(rows, term) ==
  IF rows = <<>> THEN <<>>
  ELSE (IF Occurrences(Head(rows), term) # {} THEN <<Head(rows)>> ELSE <<>>)
       \o Matching(Tail(rows), term)

\* the terms typed into the search field
SearchTerms == {<<>>, <<"a">>, <<"a", "n">>, <<"a", "n", "n">>, <<"z", "z">>}

\* the delay of the debounce timer, in milliseconds
DEBOUNCE == 300

\* the time that passes in one step while a timer is pending
WaitSteps == {DEBOUNCE \div 2}

\* clearTimeout(id)
ClearTimeout(pending, id) == SelectSeq(pending, LAMBDA t : t.id # id)

\* the id setTimeout returns: one that no pending timer has
TimerId(pending, ref) ==
  CHOOSE id \in 1..(Len(pending) + 2) :
    /\ id # ref
    /\ \A i \in 1..Len(pending) : pending[i].id # id
    /\ \A k \in 1..(id - 1) : k = ref \/ \E i \in 1..Len(pending) : pending[i].id = k

\* handleContactSearch(term), up to the timer it sets
\* (mutation: the previous timer is not cleared)
HandleContactSearchKeep(term, pending, ref, results) ==
  IF Len(term) < 2
  THEN [timers |-> pending, ref |-> ref, results |-> <<>>]
  ELSE LET id == TimerId(pending, ref)
       IN [timers |-> Append(pending, [id |-> id, term |-> term, left |-> DEBOUNCE]),
           ref |-> id, results |-> results]

HandleContactSearch(term, pending, ref, results) ==
  LET cleared == IF ref # 0 THEN ClearTimeout(pending, ref) ELSE pending
  IN IF Len(term) < 2
     THEN [timers |-> cleared, ref |-> ref, results |-> <<>>]
     ELSE LET id == TimerId(cleared, ref)
          IN [timers |-> Append(cleared,
                                [id |-> id, term |-> term, left |-> DEBOUNCE]),
              ref |-> id, results |-> results]

\* what a step of the contact search did: the response that arrived was for
\* the term, and was overtaken by the response of a later request or not
ContactEvent(act, term, overtaken) ==
  [act |-> act, term |-> term, overtaken |-> overtaken]

\* the search results after the response data of a request has arrived
\* (mutation: the response of an overtaken request is dropped)
SearchResponseInOrder(results, request, data) ==
  IF request.overtaken THEN results ELSE data

SearchResponse(results, request, data) == data

\* the Search Contacts button, shown while scanning
OpenContactSearch ==
  /\ scanning
  /\ ~showContactSearch
  /\ showContactSearch' = TRUE
  /\ contactEv' = ContactEvent("open", <<>>, FALSE)
  /\ UNCHANGED <<searchTerm, searchResults, searching, searchTimeout, timers,
                 typed, lookups>>
  /\ UNCHANGED <<scannerVars, beyond>>

\* onChange of the search field: handleContactSearch(term)
TypeTerm(term) ==
  /\ scanning /\ showContactSearch
  /\ searchTerm' = term
  /\ LET r == HandleContactSearch(term, timers, searchTimeout, searchResults)
     IN /\ Len(r.timers) <= MaxTimers
        /\ timers' = r.timers
        /\ searchTimeout' = r.ref
        /\ searchResults' = r.results
  /\ typed' = [term |-> term, elapsed |-> 0,
               superseding |-> Len(typed.term) >= 2 /\ typed.elapsed < DEBOUNCE]
  /\ contactEv' = ContactEvent("type", term, FALSE)
  /\ UNCHANGED <<showContactSearch, searching, lookups>>
  /\ UNCHANGED <<scannerVars, beyond>>

\* ms milliseconds pass while a timer waits for its time
ContactWait(ms) ==
  /\ \E i \in 1..Len(timers) : timers[i].left > 0
  /\ timers' = [i \in 1..Len(timers) |->
                  [timers[i] EXCEPT !.left = IF @ > ms THEN @ - ms ELSE 0]]
  /\ typed' = [typed EXCEPT !.elapsed = IF @ + ms < DEBOUNCE THEN @ + ms
                                        ELSE DEBOUNCE]
  /\ contactEv' = ContactEvent("wait", <<>>, FALSE)
  /\ UNCHANGED <<showContactSearch, searchTerm, searchResults, searching,
                 searchTimeout, lookups>>
  /\ UNCHANGED <<scannerVars, beyond>>

\* the i-th pending timer fires once its delay has passed: the request is
\* sent
TimerFires(i) ==
  /\ i \in 1..Len(timers)
  /\ timers[i].left = 0
  /\ Len(lookups) < MaxLookups
  /\ searching' = TRUE
  /\ lookups' = Append(lookups, [term |-> timers[i].term, overtaken |-> FALSE])
  /\ timers' = RemoveAt(timers, i)
  /\ contactEv' = ContactEvent("request", timers[i].term, FALSE)
  /\ UNCHANGED <<showContactSearch, searchTerm, searchResults, searchTimeout, typed>>
  /\ UNCHANGED <<scannerVars, beyond>>

\* the requests still in flight once the i-th has been answered: those sent
\* before it have been overtaken
Outstanding(requests, i) ==
  RemoveAt([j \in 1..Len(requests) |->
              IF j < i THEN [requests[j] EXCEPT !.overtaken = TRUE]
              ELSE requests[j]], i)

\* the response of the i-th request in flight arrives without an error
LookupSucceeds(i) ==
  /\ i \in 1..Len(lookups)
  /\ searchResults' = SearchResponse(searchResults, lookups[i],
                                     Matching(Customers, lookups[i].term))
  /\ searching' = FALSE
  /\ lookups' = Outstanding(lookups, i)
  /\ contactEv' = ContactEvent("response", lookups[i].term, lookups[i].overtaken)
  /\ UNCHANGED <<showContactSearch, searchTerm, searchTimeout, timers, typed>>
  /\ UNCHANGED <<scannerVars, beyond>>

\* the response of the i-th request in flight is an error
LookupFails(i) ==
  /\ i \in 1..Len(lookups)
  /\ searching' = FALSE
  /\ lookups' = Outstanding(lookups, i)
  /\ contactEv' = ContactEvent("error", lookups[i].term, lookups[i].overtaken)
  /\ UNCHANGED <<showContactSearch, searchTerm, searchResults, searchTimeout,
                 timers, typed>>
  /\ UNCHANGED <<scannerVars, beyond>>

\* the close button of the modal
CloseContactSearch ==
  /\ scanning /\ showContactSearch
  /\ showContactSearch' = FALSE
  /\ searchTerm' = <<>>
  /\ searchResults' = <<>>
  /\ contactEv' = ContactEvent("close", <<>>, FALSE)
  /\ UNCHANGED <<searching, searchTimeout, timers, typed, lookups>>
  /\ UNCHANGED <<scannerVars, beyond>>

\* handleSelectContact: a click on a row of the results, which are shown
\* while no request is being awaited
SelectContact(k) ==
  /\ scanning /\ showContactSearch
  /\ ~searching
  /\ k \in 1..Len(searchResults)
  /\ showContactSearch' = FALSE
  /\ searchTerm' = <<>>
  /\ searchResults' = <<>>
  /\ contactEv' = ContactEvent("select", searchResults[k], FALSE)
  /\ UNCHANGED <<searching, searchTimeout, timers, typed, lookups>>
  /\ UNCHANGED <<scannerVars, beyond>>

NextContact ==
  \/ EnableScanning
  \/ OpenContactSearch
  \/ \E term \in SearchTerms : TypeTerm(term)
  \/ \E ms \in WaitSteps : ContactWait(ms)
  \/ \E i \in 1..MaxTimers : TimerFires(i)
  \/ \E i \in 1..MaxLookups : LookupSucceeds(i)
  \/ \E i \in 1..MaxLookups : LookupFails(i)
  \/ CloseContactSearch
  \/ \E k \in 1..Len(Customers) : SelectContact(k)

SpecContact == Init /\ [][NextContact]_vars

\* ------------------------------------------- SpecRow: a product's row
\* String.prototype.split with a one-character separator
RECURSIVE Split(_, _)
Split(s, sep) ==
  IF s = <<>> THEN <<<<>>>>
  ELSE LET rest == Split(Tail(s), sep)
       IN IF Head(s) = sep THEN <<<<>>>> \o rest
          ELSE <<<<Head(s)>> \o Head(rest)>> \o Tail(rest)

\* the text of the SKU button: the parts, a '-' before every part but the
\* first
RECURSIVE SkuText(_, _)
SkuText(parts, i) ==
  IF i > Len(parts) THEN <<>>
  ELSE (IF i > 1 THEN <<"-">> ELSE <<>>) \o parts[i] \o SkuText(parts, i + 1)

\* the manufacturer code badge: sku.split('/')[1].split('-')[0], a TypeError
\* when the SKU has no '/'
ManufacturerBadge(sku) ==
  LET halves == Split(sku, "/")
  IN IF Len(halves) < 2 THEN [thrown |-> TRUE, badge |-> <<>>]
     ELSE [thrown |-> FALSE, badge |-> Split(halves[2], "-")[1]]

\* the row of a product: the badge is rendered for a viewer with the
\* permission view_sensitive_info
RenderRow(sku, permitted) ==
  LET b == IF permitted THEN ManufacturerBadge(sku)
           ELSE [thrown |-> FALSE, badge |-> <<>>]
  IN [called |-> TRUE, text |-> SkuText(Split(sku, "-"), 1),
      thrown |-> b.thrown, badge |-> b.badge]

\* the segments a SKU is made of
SkuSegments == <<<<"C", "A">>, <<"R">>, <<"1">>>>

RECURSIVE JoinSegments(_)
JoinSegments(is) ==
  IF is = <<>> THEN <<>>
  ELSE SkuSegments[Head(is)]
         \o (IF Len(is) > 1 THEN <<"-">> ELSE <<>>) \o JoinSegments(Tail(is))

\* manufacturer code, category code, cipher and further segments
Skus ==
  {JoinSegments(is) :
     is \in UNION {[1..n -> 1..Len(SkuSegments)] : n \in 3..MaxSegments}}

\* the text before the first '-'
RECURSIVE FirstSegment(_)
FirstSegment(sku) ==
  IF sku = <<>> \/ Head(sku) = "-" THEN <<>>
  ELSE <<Head(sku)>> \o FirstSegment(Tail(sku))

InitRow ==
  /\ InitComponents
  /\ EncodersIdle
  /\ ParserIdle
  /\ skuIn \in [sku : Skus, permitted : BOOLEAN]
  /\ skuOut = NoRow
  /\ PricesIdle

\* the list renders the row of the product
RenderProduct ==
  /\ skuOut' = RenderRow(skuIn.sku, skuIn.permitted)
  /\ UNCHANGED <<skuIn, parserVars, priceVars, scannerVars, contactVars,
                 formVars, symbolVars, markupVars, storeVars>>

NextRow == RenderProduct

SpecRow == InitRow /\ [][NextRow]_vars

\* ------------------------------------------ SpecPrices: filled-in prices
\* the manufacturers and categories of the forms: one with a markup of its
\* own and one without
PriceManufacturers == {"Cartier", "Acme"}
PriceCategories == {"Watches", "Acme"}

\* the form that holds the names and prices of p
PriceForm(p) ==
  FormOf([EmptyForm EXCEPT !.manufacturer = p.manufacturer,
                           !.category = p.category,
                           !.buy_price = NumberToString(p.buy),
                           !.wholesale_price = NumberToString(p.wholesale)],
         p.multiplier, <<>>, <<>>, NoError, <<>>, <<>>)

InitPrices ==
  /\ InitComponents
  /\ EncodersIdle
  /\ ParserIdle
  /\ RowIdle
  /\ priceIn \in [manufacturer : PriceManufacturers, category : PriceCategories,
                   buy : 1..MaxPrice, wholesale : 1..MaxPrice,
                   multiplier : {MWP_MULTIPLIERS[i] : i \in 1..Len(MWP_MULTIPLIERS)}]
  /\ priceOut = NoFilled

\* updatePricesBasedOnMarkup is applied to the form
FillFromMarkup ==
  /\ LET f == PriceForm(priceIn)
         r == UpdatePricesBasedOnMarkup(f, f.formData, priceIn.multiplier)
     IN priceOut' = [op |-> "markup", wholesale |-> r.formData.wholesale_price,
                     retail |-> r.formData.retail_price]
  /\ UNCHANGED <<priceIn, parserVars, skuVars, scannerVars, contactVars, formVars,
                 symbolVars, markupVars, storeVars>>

\* handleMultiplierChange is applied to the form
FillFromMultiplier ==
  /\ LET r == HandleMultiplierChange(PriceForm(priceIn), priceIn.multiplier)
     IN priceOut' = [op |-> "multiplier", wholesale |-> r.formData.wholesale_price,
                     retail |-> r.formData.retail_price]
  /\ UNCHANGED <<priceIn, parserVars, skuVars, scannerVars, contactVars, formVars,
                 symbolVars, markupVars, storeVars>>

NextPrices == FillFromMarkup \/ FillFromMultiplier

SpecPrices == InitPrices /\ [][NextPrices]_vars

\* ------------------------------------------ SpecParser: processBuffer
\* the pieces a buffer is made of: a character, the pattern, the start of
\* the pattern
BufferPieces == <<KeyX, SKU_PATTERN, <<"R", "I">>>>

RECURSIVE Concat(_)
Concat(pieces) ==
  IF pieces = <<>> THEN <<>>
  ELSE BufferPieces[Head(pieces)] \o Concat(Tail(pieces))

\* the buffers handed to processBuffer
ParserBuffers ==
  {Concat(ps) : ps \in UNION {[1..n -> 1..Len(BufferPieces)] : n \in 0..MaxPieces}}

InitParser ==
  /\ InitComponents
  /\ EncodersIdle
  /\ pbIn \in [buffer : ParserBuffers, bulk : BOOLEAN]
  /\ pbOut = NoTokens
  /\ RowIdle
  /\ PricesIdle

\* processBuffer is called with the buffer, before any bulk item exists
CallProcessBuffer ==
  /\ LET r == ProcessBuffer(pbIn.buffer, pbIn.bulk, {})
     IN pbOut' = [called |-> TRUE, buffer |-> r.buffer, tokens |-> r.d.tokens]
  /\ UNCHANGED <<pbIn, skuVars, priceVars, scannerVars, contactVars, formVars,
                 symbolVars, markupVars, storeVars>>

NextParser == CallProcessBuffer

SpecParser == InitParser /\ [][NextParser]_vars

\* ------------------------------------------------------------------ claims
\* a keydown step whose event went through the timing code of handleKeyDown
TimedKey(e) ==
  /\ e.act = "keydown"
  /\ e.key \notin {KeyEscape, KeyShift}
  /\ ~(e.ctrlKey /\ e.key = KeyD)

\* C2: a key event that reaches the buffer more than SCAN_TIMEOUT after the
\* previous non-modifier key event leaves nothing of the earlier characters
\* in the buffer and dispatches nothing; and no token is ever built from
\* characters that are older than such a gap
C2_TimeoutReset ==
  [][/\ (TimedKey(ev') /\ ev'.late) =>
          /\ ev'.tokens = <<>>
          /\ ~stale'
          /\ buffer' = IF ev'.key = KeyEnter THEN <<>> ELSE ev'.key
     /\ ~ev'.usedStale]_vars

\* a partial token was cut off by a long gap before the character "O"
C2_Witness ==
  /\ ev.act = "keydown" /\ ev.key = <<"O">> /\ ev.late /\ ev.had
  /\ buffer = <<"O">>

\* C5 (as claimed): a Shift, Control or Alt keydown changes neither the
\* buffer nor the last-key timestamp
C5_ModifierFrame ==
  [][(ev'.act = "keydown" /\ IsModifier(ev'.key)) =>
       (buffer' = buffer /\ lastKeyTime' = lastKeyTime)]_vars

\* C6 (as claimed): Enter empties the buffer and dispatches all of a non-empty
\* buffer
C6_EnterFlushesAll ==
  [][(ev'.act = "keydown" /\ ev'.key = KeyEnter) =>
       /\ buffer' = <<>>
       /\ buffer # <<>> => ev'.tokens = <<buffer>>]_vars

\* C6 (amended): Enter empties the buffer; a non-empty buffer is dispatched
\* whole when Enter comes within SCAN_TIMEOUT of the last-key timestamp, and
\* is dropped without a dispatch when Enter comes later
C6_EnterFlush ==
  [][(ev'.act = "keydown" /\ ev'.key = KeyEnter) =>
       /\ buffer' = <<>>
       /\ (buffer # <<>> /\ now' - lastKeyTime <= SCAN_TIMEOUT) =>
            ev'.tokens = <<buffer>>
       /\ (buffer = <<>> \/ now' - lastKeyTime > SCAN_TIMEOUT) =>
            ev'.tokens = <<>>]_vars

\* Enter flushed a two-character buffer as one token
C6_Witness ==
  /\ ev.act = "keydown" /\ ev.key = KeyEnter /\ ev.had
  /\ ev.tokens = <<<<"R", "I">>>>
  /\ buffer = <<>>

\* C7 (as claimed): the buffer is empty whenever scanning mode is entered
C7_EmptyOnEnter ==
  [][(~scanning /\ scanning') => buffer' = <<>>]_vars

\* C9: the parser fed the same events with bulkMode inverted has the same
\* buffer, last-key timestamp and dispatched tokens; only the destination of
\* a dispatched token differs
SinkOf(bulk) == IF bulk THEN "ledger" ELSE "lookup"

C9_BulkOrthogonal ==
  /\ twin.buffer = buffer
  /\ twin.lastKeyTime = lastKeyTime
  /\ twin.tokens = ev.tokens
  /\ Len(twin.sinks) = Len(ev.sinks)
  /\ \A i \in 1..Len(ev.sinks) : {ev.sinks[i], twin.sinks[i]} = {"ledger", "lookup"}
  /\ ev.act = "keydown" => \A i \in 1..Len(ev.sinks) : ev.sinks[i] = SinkOf(ev.bulk)

\* a token was dispatched by a trailing match after an earlier inactivity reset
C9_Witness ==
  /\ ev.act = "keydown" /\ ev.tokens = <<SKU_PATTERN>>
  /\ ev.sinks = <<"lookup">> /\ twin.sinks = <<"ledger">>
  /\ lastKeyTime > StartTime

\* C1: once the scanner has sent n complete tokens of a burst whose inner
\* gaps are at most SCAN_TIMEOUT, exactly n tokens have been dispatched, each
\* equal to SKU_PATTERN: two after the two tokens, and nothing else
C1_ScanReconstruction ==
  outLog = [i \in 1..(fed \div Len(SKU_PATTERN)) |-> SKU_PATTERN]

\* both tokens of the burst were sent and dispatched in bulk mode, with a gap
\* of exactly SCAN_TIMEOUT before every character but the first
C1_Witness ==
  /\ fed = BurstLen
  /\ outLog = <<SKU_PATTERN, SKU_PATTERN>>
  /\ now - StartTime >= (BurstLen - 1) * SCAN_TIMEOUT
  /\ ev.act = "keydown" /\ ~ev.late
  /\ bulkMode

\* C3 (as claimed): after n >= 1 bulk scans of SKU_PATTERN into a ledger that
\* lacked it, the ledger has one entry for it, of quantity n
C3_BulkAccumulation ==
  t3 >= 1 => QuantitiesOf(bulkItems, SKU_PATTERN) = <<t3>>

\* the ledger the claimed dispatch of T leaves
DispatchInto(items, T) ==
  IF FindIndex(items, T) # 0
  THEN ApplyUpdate(items, UpdIncrement(T))
  ELSE Append(items, Item(T, 1))

RECURSIVE DispatchAllInto(_, _)
DispatchAllInto(items, tokens) ==
  IF tokens = <<>> THEN items
  ELSE DispatchAllInto(DispatchInto(items, Head(tokens)), Tail(tokens))

\* C4 (as claimed): a bulk dispatch of T increments the entry of T when the
\* ledger has one and appends (T, 1) otherwise, leaving the rest as it was
C4_DispatchEffect ==
  [][(/\ ev'.act \in {"keydown", "manual"}
      /\ ev'.tokens # <<>>
      /\ \A i \in 1..Len(ev'.sinks) : ev'.sinks[i] = "ledger") =>
       bulkItems' = DispatchAllInto(bulkItems, ev'.tokens)]_vars

\* the buffer an append leaves when the cap cuts to the last BUFFER_KEEP
\* characters, before the trailing match
CapWindow(b) ==
  IF Len(b) > BUFFER_LIMIT THEN SubSeq(b, Len(b) - BUFFER_KEEP + 1, Len(b)) ELSE b

\* a keydown step that appended its key to the buffer
AppendStep ==
  /\ ev'.act = "keydown"
  /\ TimedKey(ev') /\ ~IsModifier(ev'.key) /\ ev'.key # KeyEnter
  /\ now' - lastKeyTime <= SCAN_TIMEOUT

\* C8 (as claimed): the buffer never exceeds BUFFER_LIMIT and an append that
\* exceeds it leaves exactly the last BUFFER_KEEP characters
C8_CapExact ==
  [][/\ Len(buffer') <= BUFFER_LIMIT
     /\ (AppendStep /\ Len(buffer \o ev'.key) > BUFFER_LIMIT) =>
          buffer' = CapWindow(buffer \o ev'.key)]_vars

\* C8 (amended): the buffer never exceeds BUFFER_LIMIT; an append that exceeds
\* it cuts the buffer to its last BUFFER_KEEP characters before the trailing
\* match, so the buffer is left with exactly those characters, or empty when
\* they end with the pattern, which is then dispatched
C8_BufferCap ==
  [][/\ Len(buffer') <= BUFFER_LIMIT
     /\ (AppendStep /\ Len(buffer \o ev'.key) > BUFFER_LIMIT) =>
          LET w == CapWindow(buffer \o ev'.key)
          IN /\ Len(w) = BUFFER_KEEP
             /\ IF EndsWith(w, SKU_PATTERN)
                THEN buffer' = <<>> /\ ev'.tokens = <<SKU_PATTERN>>
                ELSE buffer' = w /\ ev'.tokens = <<>>]_vars

\* a named key took the buffer past the cap and it was cut to BUFFER_KEEP
C8_Witness ==
  /\ ev.act = "keydown" /\ ev.key = KeyTab
  /\ Len(buffer) = BUFFER_KEEP
  /\ SubSeq(buffer, BUFFER_KEEP - 2, BUFFER_KEEP) = KeyTab

C11_LedgerLifecycle ==
  [][/\ ev.act = "init" => bulkItems = <<>>
     /\ (bulkItems # <<>> /\ bulkItems' = <<>>) =>
          ev'.act \in {"clear", "remove", "resolve"}
     /\ ev'.act = "complete" =>
          /\ bulkItems' = bulkItems
          /\ inflight' = IF onBulkScan /\ bulkItems # <<>>
                         THEN Append(inflight, bulkItems)
                         ELSE inflight
     /\ ev'.act = "resolve" => bulkItems' = <<>>
     /\ ev'.act = "reject" => bulkItems' = bulkItems
     /\ ev'.act = "clear" => (bulkItems' = <<>> /\ inflight' = inflight)]_vars

\* an awaited onBulkScan call resolved and left the ledger empty, a second
\* call being still awaited
C11_Witness ==
  /\ ev.act = "resolve" /\ bulkItems = <<>>
  /\ Len(inflight) = 1 /\ inflight[1] # <<>>

\* C12 (as claimed): while scanning is off, a key event changes neither the
\* buffer nor the last-key timestamp nor the ledger and dispatches nothing
C12_IdleFrame ==
  [][(~scanning /\ ev'.act \in {"keydown", "keyup"}) =>
       /\ buffer' = buffer
       /\ lastKeyTime' = lastKeyTime
       /\ bulkItems' = bulkItems
       /\ ev'.tokens = <<>>]_vars

\* the prices of the form data do not satisfy 0 < buy < wholesale < retail,
\* or a required field is missing
InvalidSubmit(data) ==
  \/ MissingFields(data)
  \/ ToNumber(data.buy_price) <= 0
  \/ ToNumber(data.wholesale_price) <= ToNumber(data.buy_price)
  \/ ToNumber(data.retail_price) <= ToNumber(data.wholesale_price)

\* the product data p has ordered prices and a complete product code
CompleteProduct(p) ==
  /\ 0 < p.buy_price /\ p.buy_price < p.wholesale_price
  /\ p.wholesale_price < p.retail_price
  /\ p.sku # <<>> /\ p.qr_code # <<>> /\ p.code128 # <<>> /\ p.cipher # <<>>

C14_EncoderOrdered ==
  /\ \A i \in 1..Len(encoderCalls) :
        /\ 0 < encoderCalls[i].wholesalePrice
        /\ encoderCalls[i].wholesalePrice < encoderCalls[i].retailPrice
  /\ generatedSKU # <<>> =>
        LET cipher == generatedSKU[Len(generatedSKU)]
        IN 0 < cipher[1] /\ cipher[1] < cipher[2]
  /\ (generatedSKU = <<>>) = (qrCode = <<>>)

\* C15: two sessions of the form that are given the same inputs except for
\* the buy prices entered pass the same arguments to generateBarcodes in
\* every step, and so hold the same generated sku and QR payload.
C15_BuyPriceNonInterference ==
  /\ twinForm.calls = encoderCalls
  /\ twinForm.generatedSKU = generatedSKU
  /\ twinForm.qrCode = qrCode

\* C16: replacing the character at any position of a text by a different
\* character changes the widths emitted by generateCode128Bars and the
\* widths emitted by generateBarcodePattern.
C16_ChecksumSensitivity ==
  symPrev.replaced => (symBars # symPrev.bars /\ symPattern # symPrev.pattern)

\* the setting of a type and a name, if there is one
SettingsOf(type, name) ==
  {i \in 1..Len(defaultMarkupSettings) :
     defaultMarkupSettings[i].type = type /\ defaultMarkupSettings[i].name = name}

\* C18: getMarkupForProduct returns the markup of the manufacturer setting
\* named manufacturer when there is one, otherwise the markup of the
\* category setting named category when there is one, otherwise the default
\* of 0.2 (20 percent); a setting of the other type never counts.
C18_MarkupResolution ==
  markupOut # 0 =>
    LET ms == SettingsOf("manufacturer", markupIn.manufacturer)
        cs == SettingsOf("category", markupIn.category)
    IN /\ ms # {} => \E i \in ms : markupOut = defaultMarkupSettings[i].markup
       /\ (ms = {} /\ cs # {}) =>
            \E i \in cs : markupOut = defaultMarkupSettings[i].markup
       /\ (ms = {} /\ cs = {}) => markupOut = 20

\* a manufacturer with a setting and a category with another markup
C18_Witness ==
  /\ markupOut = 30
  /\ markupIn = [manufacturer |-> "Cartier", category |-> "Watches"]

\* the widths of an encoded text are the start pattern, twelve widths for
\* each character in order, and the stop pattern
BarsShape(text, bars) ==
  /\ Len(bars) = 13 + 12 * Len(text)
  /\ \A k \in 1..Len(bars) : bars[k] \in 1..3
  /\ SubSeq(bars, 1, 6) = <<2, 1, 1, 2, 3, 2>>
  /\ SubSeq(bars, Len(bars) - 6, Len(bars)) = <<2, 3, 3, 1, 1, 1, 2>>
  /\ \A i \in 0..(Len(text) - 1) :
        SubSeq(bars, 7 + 12 * i, 18 + 12 * i) = Code128Group(text[i + 1], i)

\* C20: generateCode128Bars returns, for a text of length n, the start
\* pattern (2,1,1,2,3,2), twelve widths for each character in input order and
\* the stop pattern (2,3,3,1,1,1,2): 13 + 12 * n widths, each in 1..3; and
\* encoding the same text again gives the same widths.
C20_BarsShape ==
  [][/\ symBars' # <<>> => BarsShape(symText', symBars')
     /\ (symBars # <<>> /\ symText' = symText) => symBars' = symBars]_vars

\* a text of two characters was encoded
C20_Witness ==
  /\ Len(symText) = 2
  /\ Len(symBars) = 37

\* the product code of the row is the one generateBarcodes returns for some
\* manufacturer, category, wholesale price, retail price and note
Coherent(row) ==
  \E data \in StoreForms :
    LET b == GenerateBarcodes(EncoderArgs(data.category, data.manufacturer,
                                          ToNumber(data.wholesale_price),
                                          ToNumber(data.retail_price),
                                          Undefined, data.additional_info))
    IN /\ b.ok
       /\ row.sku = b.sku /\ row.cipher = b.cipher
       /\ row.qr_code = b.qrCode /\ row.code128 = b.code128

\* C17: after any sequence of add and edit operations the sku, cipher,
\* qr_code and code128 of a stored product all derive from the same
\* manufacturer, category, wholesale price and retail price; no edit leaves
\* the old sku next to a new cipher or code128 or erases a stored field.
C17_CodeCoherent ==
  \A i \in 1..Len(products) : Coherent(products[i])

\* C19: the search results after a response has arrived without an error
\* are the rows of that response, whether or not the response of a request
\* sent later arrived before it; the other requests stay in flight, so once
\* all have been answered the results are those of the last arrival.
C19_LastResponseWins ==
  [][contactEv'.act = "response" =>
       /\ searchResults' = Matching(Customers, contactEv'.term)
       /\ Len(lookups') = Len(lookups) - 1
       /\ \A j \in 1..Len(lookups') : \E k \in 1..Len(lookups) :
             lookups'[j].term = lookups[k].term]_vars

\* two requests were in flight; the response of the one sent first arrived
\* last and is what the results show
C19_Witness ==
  /\ contactEv.act = "response" /\ contactEv.overtaken
  /\ contactEv.term = <<"a", "n">>
  /\ lookups = <<>>
  /\ searchResults = <<<<"a", "n">>, <<"a", "n", "n">>>>
  /\ searchTerm = <<"a", "n", "n">>

\* C21: processBuffer dispatches nothing for an empty buffer, the whole
\* buffer as one token when the pattern does not occur in it, and otherwise
\* the pattern once for each of its occurrences and nothing of the
\* characters between them; a second call with the same buffer dispatches
\* the same.
C21_ProcessBufferTokens ==
  [][pbOut'.called =>
       LET k == Cardinality(Occurrences(pbIn.buffer, SKU_PATTERN))
       IN /\ pbIn.buffer = <<>> => pbOut'.tokens = <<>>
          /\ (pbIn.buffer # <<>> /\ k = 0) => pbOut'.tokens = <<pbIn.buffer>>
          /\ k >= 1 => pbOut'.tokens = [i \in 1..k |-> SKU_PATTERN]
          /\ (pbOut.called /\ pbIn' = pbIn) => pbOut' = pbOut]_vars

\* a buffer with two occurrences and a character between them was processed
C21_Witness ==
  /\ pbOut.called
  /\ pbIn.buffer = SKU_PATTERN \o KeyX \o SKU_PATTERN
  /\ pbOut.tokens = <<SKU_PATTERN, SKU_PATTERN>>

\* C22: a key whose name is longer than one character (Escape, Enter, Tab
\* and the like) never adds text to the buffer: after its keydown the buffer
\* is no longer than before.
C22_NamedKeysAddNothing ==
  [][(ev'.act = "keydown" /\ Len(ev'.key) > 1) => Len(buffer') <= Len(buffer)]_vars

\* C23: for a SKU made of segments separated by '-', the row renders the
\* SKU unchanged, and for a viewer with the permission the manufacturer code
\* badge evaluates without an error to the first segment of the SKU.
C23_RowOfSku ==
  skuOut.called =>
    /\ skuOut.text = skuIn.sku
    /\ skuIn.permitted =>
         ~skuOut.thrown /\ skuOut.badge = FirstSegment(skuIn.sku)

\* C24: a token typed by the scanner into the focused field and ended with
\* Enter is dispatched once: the tokens dispatched while the characters
\* arrive are one SKU_PATTERN for each token typed, a listener in bulk mode
\* adds one to the ledger for each token it dispatches, and the Enter that
\* ends the token dispatches nothing and leaves the ledger as it is.
C24_OneDispatchPerScan ==
  [][/\ outLog' = [i \in 1..(fed' \div Len(SKU_PATTERN)) |-> SKU_PATTERN]
     /\ (ev'.act = "keydown" /\ ev'.bulk) =>
          TotalQuantity(bulkItems') = TotalQuantity(bulkItems) + Len(ev'.tokens)
     /\ ev'.act = "manual" => ev'.tokens = <<>> /\ bulkItems' = bulkItems]_vars

\* C25: the resolution of an awaited onBulkScan call discards no scan: every
\* entry the ledger holds when the call resolves was handed, with at least
\* its quantity, to an onBulkScan call that is awaited at that moment.
C25_NoScanLost ==
  [][ev'.act = "resolve" =>
       \A k \in 1..Len(bulkItems) :
         \E i \in 1..Len(inflight) :
           \E j \in 1..Len(inflight[i]) :
             /\ inflight[i][j].sku = bulkItems[k].sku
             /\ inflight[i][j].quantity >= bulkItems[k].quantity]_vars

\* C26: Complete does not hand the ledger to onBulkScan while a call with the
\* same items is still awaited.
C26_SubmittedOnce ==
  [][(ev'.act = "complete" /\ inflight' # inflight) =>
       \A i \in 1..Len(inflight) : inflight[i] # bulkItems]_vars

\* C27: searching is true exactly while a lookup request is in flight.
C27_SearchingWhileInFlight == searching <=> lookups # <<>>

\* C28: a request is sent only for a term of at least two characters that
\* was the last term typed and has been so for the whole DEBOUNCE delay; at
\* most one timer is pending, and after a keystroke no timer set before it
\* is left.
C28_Debounce ==
  [][/\ Len(timers') <= 1
     /\ contactEv'.act = "request" =>
          /\ Len(contactEv'.term) >= 2
          /\ contactEv'.term = typed.term
          /\ typed.elapsed >= DEBOUNCE
     /\ contactEv'.act = "type" =>
          \A i \in 1..Len(timers') :
            timers'[i].term = contactEv'.term /\ timers'[i].left = DEBOUNCE]_vars

\* a request was sent for a term typed before the delay of another term of
\* at least two characters had passed, and none for that one
C28_Witness ==
  /\ contactEv.act = "request" /\ contactEv.term = <<"a", "n", "n">>
  /\ typed.superseding
  /\ lookups = <<[term |-> <<"a", "n", "n">>, overtaken |-> FALSE]>>
  /\ searchResults = <<>>
  /\ timers = <<>>

\* C29: while the search term has fewer than two characters (after it was
\* shortened, the modal was closed or a contact was selected) the search
\* results are empty.
C29_ResetStaysEmpty == Len(searchTerm) < 2 => searchResults = <<>>

\* C30: the wholesale price filled in from the markup is greater than the
\* buy price, and the retail price filled in from a multiplier, by either
\* handler, is greater than the wholesale price it was computed from.
C30_FilledPricesOrdered ==
  /\ priceOut.op = "markup" =>
       /\ ToNumber(priceOut.wholesale) > priceIn.buy
       /\ ToNumber(priceOut.retail) > ToNumber(priceOut.wholesale)
  /\ priceOut.op = "multiplier" =>
       ToNumber(priceOut.retail) > priceIn.wholesale
====
